---- MODULE Spec2Model ----
(***************************************************************************)
(* A model of the route composition and request dispatch core:             *)
(*   - sortRoutePaths / getRoutePathScore  (fs.ts, route path ordering)    *)
(*   - App.island                          (island name registry)          *)
(*   - App.handler                         (the dispatch pipeline)         *)
(*   - fsRoutes                            (the composition resolver)      *)
(* Route paths are sequences of one-character strings, so that charAt,     *)
(* slice, startsWith and endsWith are computed as the code computes them.  *)
(***************************************************************************)
EXTENDS Integers, Sequences, FiniteSets, TLC

VARIABLES
    \* --- route path ordering (pure functions, applied to drawn inputs)
    sa, sb, sc,         \* three route paths
    cmp,                \* results of sortRoutePaths on them, or "none"
    files,              \* routeModules before .sort(): a list of paths
    sorted,             \* routeModules after .sort(), or "none"
    \* --- App state
    islandRegistry,     \* #islandRegistry: component fn -> Island
    islandNames,        \* #islandNames
    routes,             \* #router._routes
    middlewares,        \* #router._middlewares
    \* --- one request served by the function App.handler() returns
    phase,              \* "setup" | "idle" | "running" | "done"
    req,                \* the request: method and raw path
    matched,            \* result of #router.match
    ctx,                \* the FreshReqContext of the request
    frames,             \* call stack of handler activations
    outcome,            \* what the request function's promise settled to
    trace,              \* history of handler events of the request
    \* --- fsRoutes
    routeModules,       \* the sorted InternalRoute list
    fi,                 \* loop index i of fsRoutes
    stack,              \* the ancestor stack
    hasApp,             \* the shared hasApp flag
    fsLog,              \* per Leaf: the chain composed for it
    \* --- one call of ctx.redirect
    pathOrUrl,          \* the target given
    statusArg,          \* the status given, 0 when the argument is absent
    redirected,         \* the Response returned, or the idle value
    \* --- the environment of App.handler
    hasSnapshot,        \* #buildCache.hasSnapshot
    deploymentId,       \* whether DENO_DEPLOYMENT_ID is set
    \* --- fsRoutes: loading the route modules
    relRoutePaths,      \* the files the directory walk delivered
    loaded,             \* what loadRoute returns for each of them
    loadState,          \* pending, loaded, or failed with the Error thrown
    \* --- one call of mountApp
    subApp,             \* the App mounted: its routes, middlewares, islands
    mount,              \* the call made, and the parent as it was before
    \* --- several invocations of the request function in flight
    cur,                \* the invocation whose continuation is running
    suspended,          \* the locals of each invocation that is not running
    heap                \* the FreshReqContext objects, by reference

sortVars == <<sa, sb, sc, cmp, files, sorted>>
appVars == <<islandRegistry, islandNames, routes, middlewares>>
reqVars == <<phase, req, matched, ctx, frames, outcome, trace>>
fsVars == <<routeModules, fi, stack, hasApp, fsLog>>
callVars == <<pathOrUrl, statusArg, redirected>>
envVars == <<hasSnapshot, deploymentId>>
loadVars == <<relRoutePaths, loaded, loadState>>
mountVars == <<subApp, mount>>
flightVars == <<cur, suspended, heap>>
vars ==
    <<sortVars, appVars, reqVars, fsVars, callVars, envVars, loadVars,
      mountVars, flightVars>>

----------------------------------------------------------------------------
(* Characters and strings                                                  *)

\* The characters route paths are written in, in byte order ("." 46, "/" 47,
\* digits, "[" 91, "]" 93, "_" 95, lower-case letters).
CharOrder ==
    <<".", "/", "0", "4", "5", "[", "]", "_",
      "a", "b", "d", "e", "f", "g", "i", "l", "m", "n", "o", "p", "r", "s",
      "t", "u", "w", "x", "y">>

\* Position of a character in byte order; "" (charAt past the end) is 0.
CharCode(c) ==
    IF c = "" THEN 0
    ELSE CHOOSE k \in 1..Len(CharOrder) : CharOrder[k] = c

\* JavaScript's charA < charB on one-character (or empty) strings.
CharLt(c, d) == CharCode(c) < CharCode(d)

\* s.charAt(i), 0-based: "" past the end.
CharAt(s, i) == IF i >= 0 /\ i < Len(s) THEN s[i + 1] ELSE ""

\* s.endsWith(t)
EndsWith(s, t) ==
    /\ Len(t) <= Len(s)
    /\ SubSeq(s, Len(s) - Len(t) + 1, Len(s)) = t

\* s.startsWith(t)
StartsWith(s, t) ==
    /\ Len(t) <= Len(s)
    /\ SubSeq(s, 1, Len(t)) = t

\* s.slice(0, -n)
DropLast(s, n) == IF n >= Len(s) THEN <<>> ELSE SubSeq(s, 1, Len(s) - n)

\* s.lastIndexOf(c), 0-based, -1 when absent
LastIndexOf(s, c) ==
    IF \E k \in 1..Len(s) : s[k] = c
    THEN (CHOOSE k \in 1..Len(s) :
              s[k] = c /\ \A m \in (k + 1)..Len(s) : s[m] # c) - 1
    ELSE -1

\* s.slice(from), 0-based
SliceFrom(s, from) == IF from >= Len(s) THEN <<>> ELSE SubSeq(s, from + 1, Len(s))

\* s.slice(0, to), 0-based and to >= 0
SliceTo(s, to) == IF to <= 0 THEN <<>> ELSE SubSeq(s, 1, to)

\* The segments of a path without its leading "/".
RECURSIVE Segments(_)
Segments(s) ==
    LET cut == IF \E k \in 1..Len(s) : s[k] = "/"
               THEN CHOOSE k \in 1..Len(s) :
                        s[k] = "/" /\ \A m \in 1..(k - 1) : s[m] # "/"
               ELSE 0
    IN  IF cut = 0 THEN <<s>>
        ELSE <<SubSeq(s, 1, cut - 1)>> \o Segments(SliceFrom(s, cut))

\* File name stems and directory names, spelled out.
N_app == <<"_", "a", "p", "p">>
N_middleware == <<"_", "m", "i", "d", "d", "l", "e", "w", "a", "r", "e">>
N_layout == <<"_", "l", "a", "y", "o", "u", "t">>
N_error == <<"_", "e", "r", "r", "o", "r">>
N_404 == <<"_", "4", "0", "4">>
N_500 == <<"_", "5", "0", "0">>
N_index == <<"i", "n", "d", "e", "x">>
N_about == <<"a", "b", "o", "u", "t">>
N_foo == <<"f", "o", "o">>
N_bar == <<"b", "a", "r">>
N_id == <<"[", "i", "d", "]">>
N_slug == <<"[", ".", ".", ".", "s", "l", "u", "g", "]">>
N_ud == <<"_", "d">>
N_baz == <<"b", "a", "z">>
N_ue == <<"_", "e">>
Slash == <<"/">>

\* dir/name
Join(dir, name) == dir \o Slash \o name

----------------------------------------------------------------------------
(* Route path ordering: fs.ts sortRoutePaths, getRoutePathScore            *)

\* APP_REG = /_app(?!\.[tj]sx?)?$/ : the look-ahead group is optional and $
\* follows, so the pattern matches exactly the strings that end in "_app".
APP_REG_test(s) == EndsWith(s, N_app)

\* getRoutePathScore without the `index` case (index scored as an ordinary name).
getRoutePathScoreNoIndex(char, s, i) ==
    IF char = "_" THEN
        IF i + 1 < Len(s) /\ CharAt(s, i + 1) = "e" THEN 6
        ELSE IF i + 1 < Len(s) /\ CharAt(s, i + 1) = "m" THEN 5
        ELSE 4
    ELSE IF char = "[" THEN
        IF i + 1 < Len(s) /\ CharAt(s, i + 1) = "." THEN 0 ELSE 1
    ELSE 2

\* getRoutePathScore without the "[" case (bracket segments scored as
\* ordinary names).
getRoutePathScoreNoBracket(char, s, i) ==
    IF char = "_" THEN
        IF i + 1 < Len(s) /\ CharAt(s, i + 1) = "e" THEN 6
        ELSE IF i + 1 < Len(s) /\ CharAt(s, i + 1) = "m" THEN 5
        ELSE 4
    ELSE IF /\ i + 4 = Len(s) - 1
            /\ char = "i"
            /\ CharAt(s, i + 1) = "n"
            /\ CharAt(s, i + 2) = "d"
            /\ CharAt(s, i + 3) = "e"
            /\ CharAt(s, i + 4) = "x"
         THEN 3
    ELSE 2

getRoutePathScore(char, s, i) ==
    IF char = "_" THEN
        IF i + 1 < Len(s) /\ CharAt(s, i + 1) = "e" THEN 6
        ELSE IF i + 1 < Len(s) /\ CharAt(s, i + 1) = "m" THEN 5
        ELSE 4
    ELSE IF char = "[" THEN
        IF i + 1 < Len(s) /\ CharAt(s, i + 1) = "." THEN 0 ELSE 1
    ELSE IF /\ i + 4 = Len(s) - 1
            /\ char = "i"
            /\ CharAt(s, i + 1) = "n"
            /\ CharAt(s, i + 2) = "d"
            /\ CharAt(s, i + 3) = "e"
            /\ CharAt(s, i + 4) = "x"
         THEN 3
    ELSE 2

\* The branch taken when exactly one of the two characters is "/", with the two
\* results exchanged.
segmentCloseSwapped(charA, charB) == IF charA # "/" THEN -1 ELSE 1

\* Lines 437-438: reached when charA or charB is "/" and they are not both "/".
segmentClose(charA, charB) == IF charA # "/" THEN 1 ELSE -1

\* The character tie-break of lines 449 and 459.
charTieBreak(charA, charB) == IF CharLt(charA, charB) THEN 0 ELSE 1

\* The for loop of sortRoutePaths from index i on.
RECURSIVE sortLoop(_, _, _, _)
sortLoop(a, b, i, segmentIdx) ==
    LET maxLen == IF Len(a) > Len(b) THEN Len(a) ELSE Len(b)
        charA == CharAt(a, i)
        charB == CharAt(b, i)
    IN  IF i >= maxLen THEN 0
        ELSE IF charA = "/" \/ charB = "/" THEN
            IF charA = "/" /\ charB = "/"
            THEN sortLoop(a, b, i + 1, i)
            ELSE segmentClose(charA, charB)
        ELSE IF i = segmentIdx + 1 THEN
            LET scoreA == getRoutePathScore(charA, a, i)
                scoreB == getRoutePathScore(charB, b, i)
            IN  IF scoreA = scoreB THEN
                    IF charA # charB
                    THEN charTieBreak(charA, charB)
                    ELSE sortLoop(a, b, i + 1, segmentIdx)
                ELSE IF scoreA > scoreB THEN -1 ELSE 1
        ELSE IF charA # charB THEN charTieBreak(charA, charB)
        ELSE sortLoop(a, b, i + 1, segmentIdx)

\* sortRoutePaths without the `else if (APP_REG.test(b)) return 1` branch.
sortRoutePathsNoAppB(a, b) ==
    IF APP_REG_test(a) THEN -1 ELSE sortLoop(a, b, 0, 0)

sortRoutePaths(a, b) ==
    IF APP_REG_test(a) THEN -1
    ELSE IF APP_REG_test(b) THEN 1
    ELSE sortLoop(a, b, 0, 0)

----------------------------------------------------------------------------
(* routeModules.sort(...): Array.prototype.sort as the engine the code runs *)
(* on performs it for short arrays (one run, then binary insertion).        *)

Reverse(s) == [k \in 1..Len(s) |-> s[Len(s) + 1 - k]]

\* Length of the initial run: strictly descending when the second element
\* compares below the first, otherwise non-descending.
RECURSIVE runLength(_, _, _)
runLength(s, isDescending, r) ==
    IF r >= Len(s) THEN r
    ELSE LET order == sortRoutePaths(s[r + 1], s[r])
         IN  IF isDescending
             THEN IF order >= 0 THEN r ELSE runLength(s, isDescending, r + 1)
             ELSE IF order < 0 THEN r ELSE runLength(s, isDescending, r + 1)

\* The binary search of the insertion step; left, right and the result are
\* 0-based positions.
RECURSIVE binarySearch(_, _, _, _)
binarySearch(s, pivot, left, right) ==
    IF left >= right THEN left
    ELSE LET mid == left + ((right - left) \div 2)
         IN  IF sortRoutePaths(pivot, s[mid + 1]) < 0
             THEN binarySearch(s, pivot, left, mid)
             ELSE binarySearch(s, pivot, mid + 1, right)

\* Insert the elements from 0-based position start on, one at a time.
RECURSIVE binaryInsertionSort(_, _)
binaryInsertionSort(s, start) ==
    IF start >= Len(s) THEN s
    ELSE LET pivot == s[start + 1]
             left == binarySearch(s, pivot, 0, start)
             moved == SubSeq(s, 1, left) \o <<pivot>> \o
                      SubSeq(s, left + 1, start) \o
                      SubSeq(s, start + 2, Len(s))
         IN  binaryInsertionSort(moved, start + 1)

\* paths.sort(sortRoutePaths)
ArraySort(s) ==
    IF Len(s) < 2 THEN s
    ELSE LET isDescending == sortRoutePaths(s[2], s[1]) < 0
             r == runLength(s, isDescending, 2)
             run == IF isDescending
                    THEN Reverse(SubSeq(s, 1, r)) \o SubSeq(s, r + 1, Len(s))
                    ELSE s
         IN  binaryInsertionSort(run, r)

----------------------------------------------------------------------------
(* Inputs of the ordering claims                                           *)

\* Directory nesting depth of the paths compared.
MaxDirDepth == 1

DirNames == {N_foo, N_ud}

FileNames ==
    {N_app, N_middleware, N_layout, N_error, N_404, N_500,
     N_index, N_about, N_foo, N_id, N_slug}

RECURSIVE DirsUpTo(_)
DirsUpTo(n) ==
    IF n = 0 THEN {<<>>}
    ELSE DirsUpTo(n - 1) \cup
         {Join(d, x) : d \in DirsUpTo(n - 1), x \in DirNames}

SortPaths == {Join(d, n) : d \in DirsUpTo(MaxDirDepth), n \in FileNames}

\* The six files of one directory (the root) of the ordering example.
SixFiles ==
    {Join(<<>>, n) : n \in {N_app, N_middleware, N_about, N_id, N_slug, N_index}}

\* All orders a directory walk can deliver a set of files in.
Orderings(S) ==
    {f \in [1..Cardinality(S) -> S] : \A x \in S : \E k \in DOMAIN f : f[k] = x}

NoCmp == [done |-> FALSE, ab |-> 0, ba |-> 0, bc |-> 0, ac |-> 0]

NoRedirect == [done |-> FALSE, status |-> 0, location |-> <<>>]

CallIdle ==
    /\ pathOrUrl = <<>>
    /\ statusArg = 0
    /\ redirected = NoRedirect

\* A production build snapshot exists and no deployment identifier is set.
EnvIdle ==
    /\ hasSnapshot = TRUE
    /\ deploymentId = FALSE

SortIdle ==
    /\ sa = <<>> /\ sb = <<>> /\ sc = <<>>
    /\ cmp = NoCmp
    /\ files = <<>>
    /\ sorted = <<>>

----------------------------------------------------------------------------
(* Idle values of the variable groups a specification does not use         *)

NoRequest == [method |-> "NONE", path |-> <<>>, pathname |-> <<>>]
NoMatch ==
    [params |-> <<>>, handlers |-> <<>>, patternMatch |-> FALSE,
     methodMatch |-> FALSE]
\* The null of ctx.error, and of an outcome that carries no thrown value.
NoError == [http |-> FALSE, status |-> 0, message |-> ""]
NoCtx ==
    [params |-> <<>>, next |-> 0, dflt |-> NoError, error |-> NoError,
     url |-> <<>>, state |-> {}]
NoOutcome == [type |-> "pending", status |-> 0, body |-> "", value |-> NoError]

AppIdle ==
    /\ islandRegistry = <<>>
    /\ islandNames = {}
    /\ routes = <<>>
    /\ middlewares = <<>>

ReqIdle ==
    /\ phase = "setup"
    /\ req = NoRequest
    /\ matched = NoMatch
    /\ ctx = NoCtx
    /\ frames = <<>>
    /\ outcome = NoOutcome
    /\ trace = <<>>

\* The route modules have been loaded.
LoadState(st) == [state |-> st, message |-> "", path |-> <<>>]

\* No App is mounted.
NoApp == [routes |-> <<>>, middlewares |-> <<>>, islandRegistry |-> <<>>]

NoMount ==
    [done |-> FALSE, path |-> <<>>, routes |-> <<>>, middlewares |-> <<>>,
     islandRegistry |-> <<>>]

MountIdle ==
    /\ subApp = NoApp
    /\ mount = NoMount

\* One invocation of the request function at a time.
FlightIdle ==
    /\ cur = 1
    /\ suspended = <<>>
    /\ heap = <<>>

LoadIdle ==
    /\ MountIdle
    /\ FlightIdle
    /\ relRoutePaths = <<>>
    /\ loaded = <<>>
    /\ loadState = LoadState("loaded")

FsIdle ==
    /\ LoadIdle
    /\ routeModules = <<>>
    /\ fi = 0
    /\ stack = <<>>
    /\ hasApp = FALSE
    /\ fsLog = <<>>

----------------------------------------------------------------------------
(* Specification SpecCompare: sortRoutePaths applied to three drawn paths  *)

CompareInit ==
    /\ sa \in SortPaths /\ sb \in SortPaths /\ sc \in SortPaths
    /\ cmp = NoCmp
    /\ files = <<>> /\ sorted = <<>>
    /\ AppIdle /\ ReqIdle /\ FsIdle /\ CallIdle /\ EnvIdle

Compare ==
    /\ ~cmp.done
    /\ cmp' = [done |-> TRUE,
               ab |-> sortRoutePaths(sa, sb),
               ba |-> sortRoutePaths(sb, sa),
               bc |-> sortRoutePaths(sb, sc),
               ac |-> sortRoutePaths(sa, sc)]
    /\ UNCHANGED <<sa, sb, sc, files, sorted, appVars, reqVars, fsVars, callVars, envVars, loadVars, mountVars, flightVars>>

CompareNext == Compare

SpecCompare == CompareInit /\ [][CompareNext]_vars

----------------------------------------------------------------------------
(* Specification SpecSortSix: the six files of one directory, in any       *)
(* discovery order, sorted by routeModules.sort                            *)

SortSixInit ==
    /\ sa = <<>> /\ sb = <<>> /\ sc = <<>> /\ cmp = NoCmp
    /\ files \in Orderings(SixFiles)
    /\ sorted = <<>>
    /\ AppIdle /\ ReqIdle /\ FsIdle /\ CallIdle /\ EnvIdle

SortFiles ==
    /\ sorted = <<>>
    /\ sorted' = ArraySort(files)
    /\ UNCHANGED <<sa, sb, sc, cmp, files, appVars, reqVars, fsVars, callVars, envVars, loadVars, mountVars, flightVars>>

SortSixNext == SortFiles

SpecSortSix == SortSixInit /\ [][SortSixNext]_vars

----------------------------------------------------------------------------
(* Claims on the route path ordering                                       *)

\* C6: sortRoutePaths is transitive on its strict part: whenever
\* sortRoutePaths(a,b) < 0 and sortRoutePaths(b,c) < 0, also
\* sortRoutePaths(a,c) < 0.
C6_StrictTransitive ==
    (cmp.done /\ cmp.ab < 0 /\ cmp.bc < 0) => cmp.ac < 0

\* A chain a < b < c of three different paths, none of them `_app`, decided
\* once by the segment score and once by a closing segment.
C6_Witness ==
    /\ cmp.done /\ cmp.ab < 0 /\ cmp.bc < 0
    /\ sa = Join(Join(<<>>, N_foo), N_middleware)
    /\ sb = Join(Join(<<>>, N_foo), N_index)
    /\ sc = Join(<<>>, N_foo)

\* C7 as claimed: for two distinct paths exactly one of sortRoutePaths(a,b) < 0
\* and sortRoutePaths(b,a) < 0 holds, and sortRoutePaths(a,b) < 0 iff
\* sortRoutePaths(b,a) > 0.
C7_TotalOrder ==
    (cmp.done /\ sa # sb) =>
        /\ (cmp.ab < 0) # (cmp.ba < 0)
        /\ (cmp.ab < 0) <=> (cmp.ba > 0)

\* C8: sorting the six files _app, _middleware, about, [id], [...slug], index
\* of one directory gives _app, _middleware, index, about, [id], [...slug]
\* from every initial order.
C8_SixSorted ==
    sorted # <<>> =>
        sorted = <<Join(<<>>, N_app), Join(<<>>, N_middleware),
                   Join(<<>>, N_index), Join(<<>>, N_about),
                   Join(<<>>, N_id), Join(<<>>, N_slug)>>

\* The files were delivered in the reverse of the expected order and sorted.
C8_Witness ==
    /\ sorted # <<>>
    /\ files = <<Join(<<>>, N_slug), Join(<<>>, N_id), Join(<<>>, N_about),
                 Join(<<>>, N_index), Join(<<>>, N_middleware),
                 Join(<<>>, N_app)>>

\* b equals a followed by "/" and further segments.
IsBelow(a, b) == Len(a) < Len(b) /\ StartsWith(b, a \o Slash)

dirOf(p) == SliceTo(p, LastIndexOf(p, "/"))
nameOf(p) == SliceFrom(p, LastIndexOf(p, "/") + 1)

specialName(p) == nameOf(p) \in {N_layout, N_middleware, N_error, N_404, N_500}

\* x is a Leaf of the directory d, or a file of a directory below d.
siblingLeaf(d, x) == dirOf(x) = d /\ ~specialName(x) /\ nameOf(x) # N_app
deeperFile(d, x) == StartsWith(dirOf(x), d \o Slash)

\* C19 as claimed: a special file (_layout, _middleware, _error, _404, _500)
\* of a directory compares before every Leaf of that directory and before
\* every file of its subdirectories, whatever their names:
\* sortRoutePaths(special, x) < 0.
C19_SpecialFirst ==
    (/\ cmp.done
     /\ specialName(sa)
     /\ siblingLeaf(dirOf(sa), sb) \/ deeperFile(dirOf(sa), sb))
      => cmp.ab < 0

\* The same for subdirectories and files whose names do not begin with `_`.
C19_SpecialFirstPlainNames ==
    (/\ cmp.done
     /\ specialName(sa)
     /\ siblingLeaf(dirOf(sa), sb) \/ deeperFile(dirOf(sa), sb)
     /\ \A k \in 1..Len(sb) - 1 : sb[k] = "/" => sb[k + 1] # "_")
      => cmp.ab < 0

----------------------------------------------------------------------------
(* App.island: the island registry                                         *)

\* Number of component functions that may be registered.
MaxIslands == 3

\* Component function identities (the keys of #islandRegistry).
IslandFns == 1..MaxIslands

\* Names are sequences of tokens, so that appending `_${i}` is computed.
Default == <<"default">>
ExportNames == {Default, <<"Counter">>, <<"Counter", "_", "0">>}

\* Island files: a directory and the base name without its extension.
IslandFiles ==
    {[dir |-> "islands", base |-> <<"Counter">>],
     [dir |-> "routes/(_islands)", base |-> <<"Counter">>],
     [dir |-> "islands", base |-> <<"Cart">>]}

Digits == <<"0", "1", "2", "3", "4", "5", "6", "7", "8", "9">>

\* `${name}_${i}`
Suffixed(name, i) == name \o <<"_", Digits[i + 1]>>

\* path.basename(filePath, path.extname(filePath))
basename(file) == file.base

\* The while loop of lines 87-90: the first i with `${name}_${i}` not in names.
RECURSIVE firstFree(_, _, _)
firstFree(names, name, i) ==
    IF Suffixed(name, i) \in names /\ i < 9
    THEN firstFree(names, name, i + 1)
    ELSE i

\* Lines 83-92: the name given to the island, from #islandNames as it is.
islandName(names, file, exportName) ==
    LET name == IF exportName = Default THEN basename(file) ELSE exportName
    IN  IF name \in names
        THEN Suffixed(name, firstFree(names, name, 0))
        ELSE name

\* Map.prototype.set on the registry.
MapSet(map, key, value) ==
    [k \in (DOMAIN map) \cup {key} |-> IF k = key THEN value ELSE map[k]]

\* App.island(filePathOrUrl, exportName, fn). Nothing in the class adds to
\* #islandNames, so it is left as it is.
island(file, exportName, fn) ==
    /\ islandRegistry' =
           MapSet(islandRegistry, fn,
                  [fn |-> fn, exportName |-> exportName,
                   name |-> islandName(islandNames, file, exportName),
                   file |-> file])
    /\ UNCHANGED <<islandNames, routes, middlewares>>

IslandInit ==
    /\ SortIdle /\ AppIdle /\ ReqIdle /\ FsIdle /\ CallIdle /\ EnvIdle

RegisterIsland ==
    /\ \E file \in IslandFiles, exportName \in ExportNames, fn \in IslandFns :
           island(file, exportName, fn)
    /\ UNCHANGED <<flightVars, mountVars, loadVars, envVars, callVars, sortVars, reqVars, fsVars>>

IslandNext == RegisterIsland

SpecIsland == IslandInit /\ [][IslandNext]_vars

\* C5 as claimed: the names of all Islands in the registry are pairwise
\* distinct, whatever export names and files the component functions were
\* registered with.
C5_NamesDistinct ==
    \A f \in DOMAIN islandRegistry, g \in DOMAIN islandRegistry :
        f # g => islandRegistry[f].name # islandRegistry[g].name

----------------------------------------------------------------------------
(* The pattern router (router.ts is not among the sources: modelled from   *)
(* section 4.4 of the specification and from the way app.ts uses it)       *)

\* URL pathnames are sequences of segments, each a sequence of characters:
\* <<<<"a">>, <<"b">>>> is /a/b, <<<<>>, <<"a">>>> is //a, <<<<"a">>, <<>>>>
\* is /a/ and <<<<>>>> is /.
\* Patterns are sequences of segment patterns.
Lit(v) == [k |-> "lit", v |-> v]
Param(v) == [k |-> "param", v |-> v]
Wild == [k |-> "wild", v |-> "*"]

\* Whether a pattern matches a pathname: fixed segments, single named
\* parameters and one trailing wildcard.
RECURSIVE patternMatches(_, _)
patternMatches(pattern, pathname) ==
    IF pattern = <<>> THEN pathname = <<>>
    ELSE IF Head(pattern).k = "wild" THEN TRUE
    ELSE IF pathname = <<>> THEN FALSE
    ELSE IF Head(pattern).k = "lit"
         THEN Head(pathname) = Head(pattern).v /\
              patternMatches(Tail(pattern), Tail(pathname))
    ELSE Head(pathname) # <<>> /\ patternMatches(Tail(pattern), Tail(pathname))

\* The parameters a matching pattern extracts.
RECURSIVE patternParams(_, _)
patternParams(pattern, pathname) ==
    IF pattern = <<>> \/ pathname = <<>> THEN <<>>
    ELSE IF Head(pattern).k = "wild"
         THEN <<[name |-> <<"*">>, value |-> pathname]>>
    ELSE IF Head(pattern).k = "param"
         THEN <<[name |-> Head(pattern).v, value |-> <<Head(pathname)>>]>> \o
              patternParams(Tail(pattern), Tail(pathname))
    ELSE patternParams(Tail(pattern), Tail(pathname))

\* The pattern a route is registered with is a string: "*" alone, or "/"
\* followed by segments separated by "/", where ":name" is a single named
\* parameter, ":name*" and "*" a trailing wildcard, and any other segment a
\* fixed one.
compileSegment(seg) ==
    IF seg = <<"*">> THEN Wild
    ELSE IF StartsWith(seg, <<":">>) /\ EndsWith(seg, <<"*">>) THEN Wild
    ELSE IF StartsWith(seg, <<":">>) THEN Param(SliceFrom(seg, 1))
    ELSE Lit(seg)

compilePattern(path) ==
    IF path = <<"*">> THEN <<Wild>>
    ELSE LET segs == Segments(SliceFrom(path, 1))
         IN  [k \in 1..Len(segs) |-> compileSegment(segs[k])]

\* mergePaths(base, path): the mount prefix followed by the pattern.
mergePaths(base, path) ==
    IF EndsWith(base, Slash) /\ StartsWith(path, Slash)
    THEN DropLast(base, 1) \o path
    ELSE base \o path

\* Router.add
routerAdd(rs, method, path, handlers) ==
    Append(rs, [method |-> method, path |-> compilePattern(path),
                pattern |-> path, handlers |-> handlers])

\* Router.addMiddleware
routerAddMiddleware(ms, fn) == Append(ms, fn)

\* Indices of the routes whose pattern matches the pathname, and of those that
\* also serve the method.
pathHits(rs, pathname) ==
    {r \in 1..Len(rs) : patternMatches(rs[r].path, pathname)}
methodHits(rs, method, pathname) ==
    {r \in pathHits(rs, pathname) : rs[r].method \in {"ALL", method}}

\* Router.match: the global middlewares (one group, when there are any), then
\* the handlers of the first route, in registration order, that matches the
\* pathname and the method.
routerMatch(rs, ms, method, pathname) ==
    LET global == IF Len(ms) > 0 THEN <<ms>> ELSE <<>>
        hits == methodHits(rs, method, pathname)
    IN  IF hits # {}
        THEN LET r == CHOOSE x \in hits : \A y \in hits : x <= y
             IN  [params |-> patternParams(rs[r].path, pathname),
                  handlers |-> Append(global, rs[r].handlers),
                  patternMatch |-> TRUE,
                  methodMatch |-> TRUE]
        ELSE [params |-> <<>>,
              handlers |-> global,
              patternMatch |-> pathHits(rs, pathname) # {},
              methodMatch |-> FALSE]

----------------------------------------------------------------------------
(* App: registration (app.ts)                                              *)

\* config.basePath as normalizeConfig leaves it by default: "".
basePath == <<>>

\* App.use
use(middleware) ==
    /\ middlewares' = routerAddMiddleware(middlewares, middleware)
    /\ UNCHANGED <<islandRegistry, islandNames, routes>>

\* App.#addRoutes, reached from get, post, patch, put, delete, head and all
addRoutes(method, pathname, mws) ==
    /\ routes' = routerAdd(routes, method, mergePaths(basePath, pathname), mws)
    /\ UNCHANGED <<islandRegistry, islandNames, middlewares>>

----------------------------------------------------------------------------
(* App.handler: the request function (app.ts lines 168-218)                *)

\* Thrown values. error.ts is not among the sources: an HttpError carries a
\* status and a message.
statusText(status) ==
    CASE status = 404 -> "Not Found"
      [] status = 405 -> "Method Not Allowed"
      [] OTHER -> "I'm a teapot"
HttpError(status) ==
    [http |-> TRUE, status |-> status, message |-> statusText(status)]
Boom == [http |-> FALSE, status |-> 0, message |-> "boom"]

\* What a handler may throw: an HttpError of the application, or anything else.
Thrown == {HttpError(418), Boom}

Response(status, body) ==
    [type |-> "response", status |-> status, body |-> body, value |-> NoError]
Rejected(err) ==
    [type |-> "rejected", status |-> 0, body |-> "", value |-> err]

\* Lines 24-29: what the two default terminal handlers throw.
DEFAULT_NOT_FOUND == HttpError(404)
DEFAULT_NOT_ALLOWED_METHOD == HttpError(405)

\* The default terminal handler bound whatever the match says: always not-found.
defaultNextAlwaysNotFound(m) == DEFAULT_NOT_FOUND

\* Lines 187-189
defaultNext(m) ==
    IF m.patternMatch /\ ~m.methodMatch
    THEN DEFAULT_NOT_ALLOWED_METHOD
    ELSE DEFAULT_NOT_FOUND

\* Line 182: url.pathname.replace(/\/+/g, "/"): every empty segment but a
\* final one (a trailing slash) goes.
normalizePath(raw) ==
    LET n == Len(raw)
        kept == {k \in 1..n : raw[k] # <<>>}
        body == [k \in 1..Cardinality(kept) |->
                    raw[CHOOSE j \in kept :
                            Cardinality({x \in kept : x < j}) = k - 1]]
    IN  IF n > 0 /\ raw[n] = <<>> THEN Append(body, <<>>) ELSE body

\* The fast path taken for every non-empty handler list.
isFastPathAny(handlers) == Len(handlers) >= 1 /\ Len(handlers[1]) >= 1

\* Line 203: handlers.length === 1 && handlers[0].length === 1
isFastPath(handlers) == Len(handlers) = 1 /\ Len(handlers[1]) = 1

\* Lines 209-216: the catch block of the request function.
catchResponse(err) ==
    IF err.http
    THEN Response(err.status, err.message)
    ELSE Response(500, "Internal server error")

\* The handler groups of a match as one chain (middlewares/mod.ts is not among
\* the sources: runMiddlewares is modelled from section 4.5 and the design
\* note on continuation chains: an ordered list and a cursor, the default
\* terminal handler bound past the end).
RECURSIVE flatten(_)
flatten(groups) ==
    IF groups = <<>> THEN <<>> ELSE Head(groups) \o flatten(Tail(groups))

chain == flatten(matched.handlers)
fast == isFastPath(matched.handlers)

Event(e, h, v, err) == [e |-> e, h |-> h, v |-> v, err |-> err]
Frame(h, st, res, err) == [h |-> h, st |-> st, res |-> res, err |-> err]
NoResponse == Response(0, "")

top == frames[Len(frames)]


\* Bounds of the dispatch model: routes registered, global middlewares
\* registered, handlers given to one route.
MaxRoutes == 1
MaxMiddlewares == 1
MaxChain == 2

Methods == {"GET", "POST"}
RouteMethods == {"GET", "ALL"}
Patterns == {<<"/", "a">>, <<"/", "a", "/", ":", "i", "d">>, <<"*">>}
RawPaths ==
    {<<<<"a">>>>, <<<<"a">>, <<"b">>>>, <<<<"b">>>>, <<<<>>, <<"a">>>>}

\* Handlers are opaque functions: only their identity is registered; what an
\* invocation does (respond, call ctx.next(), throw) is chosen when it runs.
MwHandler(k) == [g |-> "mw", r |-> 0, k |-> k]
RouteHandler(r, k) == [g |-> "route", r |-> r, k |-> k]

Init == SortIdle /\ AppIdle /\ ReqIdle /\ FsIdle /\ CallIdle /\ EnvIdle

\* app.use(middleware)
Use ==
    /\ phase = "setup"
    /\ Len(middlewares) < MaxMiddlewares
    /\ use(MwHandler(Len(middlewares) + 1))
    /\ UNCHANGED <<flightVars, mountVars, loadVars, envVars, callVars, sortVars, reqVars, fsVars>>

\* app.get(path, ...handlers), app.all(path, ...handlers)
AddRoute ==
    /\ phase = "setup"
    /\ Len(routes) < MaxRoutes
    /\ \E method \in RouteMethods, pattern \in Patterns, n \in 0..MaxChain :
           addRoutes(method, pattern,
                     [k \in 1..n |-> RouteHandler(Len(routes) + 1, k)])
    /\ UNCHANGED <<flightVars, mountVars, loadVars, envVars, callVars, sortVars, reqVars, fsVars>>

\* A test of the snapshot that never finds it missing.
snapshotNeverMissing == FALSE

\* Line 175: !this.#buildCache.hasSnapshot
snapshotMissing == ~hasSnapshot

\* app.handler() with a build snapshot present: the request function exists
BuildHandler ==
    /\ phase = "setup"
    /\ ~snapshotMissing
    /\ phase' = "idle"
    /\ UNCHANGED <<req, matched, ctx, frames, outcome, trace>>
    /\ UNCHANGED <<flightVars, mountVars, loadVars, envVars, callVars, sortVars, appVars, fsVars>>

\* The request function up to the first handler it invokes (lines 179-208).
\* Lines 187-208 for a request whose match is m.
Dispatch(method, raw, m) ==
           LET pathname == normalizePath(raw)
               next == defaultNext(m)
               hs == flatten(m.handlers)
               c == [params |-> m.params, next |-> Len(hs) + 1,
                     dflt |-> next, error |-> NoError, url |-> raw,
                     state |-> {}]
           IN  /\ req' = [method |-> method, path |-> raw,
                          pathname |-> pathname]
               /\ matched' = m
               /\ IF isFastPath(m.handlers)
                  THEN \* handlers[0][0](ctx), ctx.next the default handler
                       /\ ctx' = c
                       /\ frames' = <<Frame(1, "run", NoResponse, NoError)>>
                       /\ trace' = <<Event("start", 1, 0, NoError)>>
                       /\ outcome' = NoOutcome
                       /\ phase' = "running"
                  ELSE IF hs = <<>>
                  THEN \* runMiddlewares of no handler calls ctx.next
                       /\ ctx' = c
                       /\ frames' = <<>>
                       /\ trace' = <<Event("default", 0, next.status, NoError),
                                     Event("boundary", 0, 0, next)>>
                       /\ outcome' = catchResponse(next)
                       /\ phase' = "done"
                  ELSE \* runMiddlewares invokes the first handler
                       /\ ctx' = [c EXCEPT !.next = 2]
                       /\ frames' = <<Frame(1, "run", NoResponse, NoError)>>
                       /\ trace' = <<Event("start", 1, 0, NoError)>>
                       /\ outcome' = NoOutcome
                       /\ phase' = "running"

ReceiveOf(method, raw) ==
    Dispatch(method, raw,
             routerMatch(routes, middlewares, method, normalizePath(raw)))

Receive ==
    /\ phase = "idle"
    /\ \E method \in Methods, raw \in RawPaths : ReceiveOf(method, raw)
    /\ UNCHANGED <<flightVars, mountVars, loadVars, envVars, callVars, sortVars, appVars, fsVars>>

\* Line 204, `return handlers[0][0](ctx)` inside try: a synchronous throw is
\* caught; a returned promise is not awaited, so its rejection settles the
\* request function's promise. Line 208, `return await runMiddlewares(...)`:
\* every failure is caught.
settleThrown(isFast, err, viaPromise) ==
    IF isFast /\ viaPromise THEN Rejected(err) ELSE catchResponse(err)

\* The running handler returns resp: to its caller, or as the response.  The
\* event is "return", or "page" for a rendered component chain, and records
\* seen, the error slot the components were given.
ReturnAs(e, resp, seen) ==
    /\ trace' = Append(trace, Event(e, top.h, resp.status, seen))
    /\ IF Len(frames) = 1
       THEN /\ frames' = <<>>
            /\ outcome' = resp
            /\ phase' = "done"
       ELSE /\ frames' = [SubSeq(frames, 1, Len(frames) - 1)
                             EXCEPT ![Len(frames) - 1] =
                                 Frame(@.h, "got", resp, NoError)]
            /\ UNCHANGED <<outcome, phase>>
    /\ UNCHANGED <<req, matched, ctx>>

ReturnFrom(resp) == ReturnAs("return", resp, NoError)

\* The running handler fails with err: into its caller, or out of the chain.
ThrowFrom(err, viaPromise) ==
    /\ IF Len(frames) = 1
       THEN /\ frames' = <<>>
            /\ trace' = trace \o <<Event("throw", top.h, 0, err),
                                   Event("boundary", 0, 0, err)>>
            /\ outcome' = settleThrown(fast, err, viaPromise)
            /\ phase' = "done"
       ELSE /\ frames' = [SubSeq(frames, 1, Len(frames) - 1)
                             EXCEPT ![Len(frames) - 1] =
                                 Frame(@.h, "failed", NoResponse, err)]
            /\ trace' = Append(trace, Event("throw", top.h, 0, err))
            /\ UNCHANGED <<outcome, phase>>
    /\ UNCHANGED <<req, matched, ctx>>

\* A handler returns a response of its own without calling ctx.next()
HandlerResponds ==
    /\ phase = "running" /\ top.st = "run"
    /\ ReturnFrom(Response(200, "ok"))
    /\ UNCHANGED <<flightVars, mountVars, loadVars, envVars, callVars, sortVars, appVars, fsVars>>

\* A handler calls ctx.next(): the next handler of the chain starts, or, past
\* the end, the default terminal handler throws into the caller.
HandlerCallsNext ==
    /\ phase = "running" /\ top.st = "run"
    /\ IF ctx.next <= Len(chain)
       THEN /\ frames' = Append([frames EXCEPT ![Len(frames)].st = "wait"],
                                Frame(ctx.next, "run", NoResponse, NoError))
            /\ ctx' = [ctx EXCEPT !.next = @ + 1]
            /\ trace' = trace \o <<Event("next", top.h, 0, NoError),
                                   Event("start", ctx.next, 0, NoError)>>
       ELSE /\ frames' = [frames EXCEPT ![Len(frames)] =
                              Frame(@.h, "failed", NoResponse, ctx.dflt)]
            /\ ctx' = ctx
            /\ trace' = trace \o
                   <<Event("next", top.h, 0, NoError),
                     Event("default", 0, ctx.dflt.status, NoError)>>
    /\ UNCHANGED <<phase, req, matched, outcome>>
    /\ UNCHANGED <<flightVars, mountVars, loadVars, envVars, callVars, sortVars, appVars, fsVars>>

\* A handler throws, synchronously or through the promise it returned
HandlerThrows ==
    /\ phase = "running" /\ top.st = "run"
    /\ \E err \in Thrown, viaPromise \in BOOLEAN : ThrowFrom(err, viaPromise)
    /\ UNCHANGED <<flightVars, mountVars, loadVars, envVars, callVars, sortVars, appVars, fsVars>>

\* A handler returns the response ctx.next() gave it
HandlerReturnsNext ==
    /\ phase = "running" /\ top.st = "got"
    /\ ReturnFrom(top.res)
    /\ UNCHANGED <<flightVars, mountVars, loadVars, envVars, callVars, sortVars, appVars, fsVars>>

\* A handler replaces the response ctx.next() gave it by one of its own
HandlerWraps ==
    /\ phase = "running" /\ top.st = "got"
    /\ ReturnFrom(Response(200, "wrapped"))
    /\ UNCHANGED <<flightVars, mountVars, loadVars, envVars, callVars, sortVars, appVars, fsVars>>

\* A handler lets the failure of ctx.next() pass
HandlerRethrows ==
    /\ phase = "running" /\ top.st = "failed"
    /\ \E viaPromise \in BOOLEAN : ThrowFrom(top.err, viaPromise)
    /\ UNCHANGED <<flightVars, mountVars, loadVars, envVars, callVars, sortVars, appVars, fsVars>>

\* A handler catches the failure of ctx.next() and responds
HandlerRecovers ==
    /\ phase = "running" /\ top.st = "failed"
    /\ ReturnFrom(Response(200, "recovered"))
    /\ UNCHANGED <<flightVars, mountVars, loadVars, envVars, callVars, sortVars, appVars, fsVars>>

Next ==
    \/ Use
    \/ AddRoute
    \/ BuildHandler
    \/ Receive
    \/ HandlerResponds
    \/ HandlerCallsNext
    \/ HandlerThrows
    \/ HandlerReturnsNext
    \/ HandlerWraps
    \/ HandlerRethrows
    \/ HandlerRecovers

Spec == Init /\ [][Next]_vars

----------------------------------------------------------------------------
(* Claims on the dispatch pipeline                                         *)

\* C1 as claimed: the request function always completes with a Response and
\* never fails with an exception, on the fast path as on the general path.
C1_AlwaysResponse == phase = "done" => outcome.type = "response"

\* The value that left the handler chain towards the dispatch boundary, when
\* the request ended that way.
reachedBoundary ==
    /\ phase = "done"
    /\ Len(trace) > 0
    /\ trace[Len(trace)].e = "boundary"

\* C2 as claimed: a thrown value that reaches the dispatch boundary decides the
\* response alone: an HttpError of status s gives status s with the error's
\* message as body, anything else gives 500 with the generic body.
C2_ThrownDecidesResponse ==
    reachedBoundary =>
        LET err == trace[Len(trace)].err
        IN  /\ outcome.type = "response"
            /\ err.http =>
                   (outcome.status = err.status /\ outcome.body = err.message)
            /\ ~err.http =>
                   (outcome.status = 500 /\
                    outcome.body = "Internal server error")

\* Some handler registered on a route was started for the request.
routeHandlerRan ==
    \E p \in 1..Len(trace) :
        trace[p].e = "start" /\ chain[trace[p].h].g = "route"

\* C3 as claimed: a request whose path matches no registered pattern yields a
\* 404 response and runs no route handler chain; one whose path matches a
\* pattern that has no handler for the method yields 405; the default terminal
\* handler is method-not-allowed exactly when patternMatch and not methodMatch.
C3_DefaultResponses ==
    phase = "done" =>
        /\ ~matched.patternMatch =>
               (outcome.type = "response" /\ outcome.status = 404 /\
                ~routeHandlerRan)
        /\ (matched.patternMatch /\ ~matched.methodMatch) =>
               (outcome.type = "response" /\ outcome.status = 405)
        /\ (ctx.dflt.status = 405) <=>
               (matched.patternMatch /\ ~matched.methodMatch)

\* C3 amended: such requests run no route handler (only global middlewares
\* run); the default terminal handler is method-not-allowed exactly when
\* patternMatch and not methodMatch, and not-found otherwise; and when no
\* global middleware is registered the response is the 404, respectively the
\* 405, of that default handler.
C3_DefaultResponsesNoMiddleware ==
    phase \in {"running", "done"} =>
        /\ ~matched.methodMatch => ~routeHandlerRan
        /\ ctx.dflt.http
        /\ (ctx.dflt.status = 405) <=>
               (matched.patternMatch /\ ~matched.methodMatch)
        /\ (ctx.dflt.status = 404) <=>
               ~(matched.patternMatch /\ ~matched.methodMatch)
        /\ (phase = "done" /\ middlewares = <<>> /\ ~matched.patternMatch) =>
               (outcome.type = "response" /\ outcome.status = 404 /\
                outcome.body = "Not Found")
        /\ (phase = "done" /\ middlewares = <<>> /\ matched.patternMatch /\
            ~matched.methodMatch) =>
               (outcome.type = "response" /\ outcome.status = 405 /\
                outcome.body = "Method Not Allowed")

\* A POST to a path registered for GET only, no global middleware: 405.
C3_Witness ==
    /\ phase = "done"
    /\ middlewares = <<>>
    /\ req.method = "POST"
    /\ matched.patternMatch /\ ~matched.methodMatch
    /\ outcome.status = 405

\* The request takes the general path (through the middleware runner).
generalPath ==
    /\ phase \in {"running", "done"}
    /\ ~(Len(matched.handlers) = 1 /\ Len(matched.handlers[1]) = 1)

ends(p) == trace[p].e \in {"return", "throw"}

\* C4: on the general path the chain runs as a strict left-to-right
\* continuation sequence: handler 1 starts first and handler i+1 starts only
\* as the step that follows handler i calling ctx.next(), each at most once; a
\* handler that ended without calling ctx.next() has no later handler started;
\* a handler ends only after every handler after it has ended, and the caller
\* holds the response of ctx.next() before it returns; ctx.next() of the last
\* handler runs the bound default terminal handler (404 or 405); and exactly
\* one response results.
C4_ContinuationSequence ==
    generalPath =>
        LET n == Len(chain)
            T == 1..Len(trace)
        IN  /\ \A p \in T : trace[p].e = "start" =>
                   /\ trace[p].h \in 1..n
                   /\ IF trace[p].h = 1 THEN p = 1
                      ELSE /\ p > 1 /\ trace[p - 1].e = "next"
                           /\ trace[p - 1].h = trace[p].h - 1
                   /\ \A q \in T :
                          (trace[q].e = "start" /\ trace[q].h = trace[p].h)
                              => q = p
            /\ \A p \in T : trace[p].e = "next" =>
                   /\ p < Len(trace)
                   /\ IF trace[p].h < n
                      THEN trace[p + 1].e = "start" /\
                           trace[p + 1].h = trace[p].h + 1
                      ELSE trace[p + 1].e = "default" /\
                           trace[p + 1].v = ctx.dflt.status /\
                           trace[p + 1].v \in {404, 405}
            /\ \A p \in T :
                   (ends(p) /\ ~\E q \in 1..p :
                        trace[q].e = "next" /\ trace[q].h = trace[p].h)
                   => ~\E q \in T :
                          trace[q].e = "start" /\ trace[q].h > trace[p].h
            /\ \A p \in T, q \in T :
                   (ends(p) /\ trace[q].e = "start" /\
                    trace[q].h > trace[p].h) =>
                       \E r \in 1..(p - 1) :
                           ends(r) /\ trace[r].h = trace[q].h
            /\ \A k \in 1..Len(frames) : frames[k].st = "got" =>
                   \E p \in T :
                       /\ trace[p].e = "return"
                       /\ trace[p].h = frames[k].h + 1
                       /\ trace[p].v = frames[k].res.status
                       /\ ~\E q \in T : ends(q) /\ trace[q].h = frames[k].h
            /\ phase = "running" => outcome = NoOutcome
            /\ phase = "done" => (outcome.type = "response" /\ frames = <<>>)

\* A chain of three handlers ran to its end: the last called ctx.next(), the
\* default handler ran, and the first handler returned the response.
C4_Witness ==
    /\ generalPath /\ phase = "done"
    /\ Len(chain) = 3
    /\ \E p \in 1..Len(trace) : trace[p].e = "next" /\ trace[p].h = 3
    /\ \E p \in 1..Len(trace) : trace[p].e = "return" /\ trace[p].h = 1
    /\ outcome.type = "response"

----------------------------------------------------------------------------
(* fsRoutes: loading the route modules (fs.ts lines 168-202)               *)

Ext == <<".", "t", "s", "x">>

\* What a route file exports.  handlers is null, one function, an array of
\* functions or an object keyed by method; keys names the functions in it,
\* undef the keys whose value is undefined.
\* config is null (both flags absent) or carries the two flags; routeOverride
\* is never set.  component is the default export, identified by the file it
\* comes from, or null.
NoHandlers == [kind |-> "null", keys |-> <<>>, undef |-> {}]
OneHandler == [kind |-> "function", keys |-> <<"fn">>, undef |-> {}]
HandlerArray == [kind |-> "array", keys |-> <<"0", "1">>, undef |-> {}]
HandlersByMethod == [kind |-> "object", keys |-> <<"GET", "POST">>, undef |-> {}]
HandlersPostOnly == [kind |-> "object", keys |-> <<"POST">>, undef |-> {}]
HandlersEmpty == [kind |-> "object", keys |-> <<>>, undef |-> {}]
HandlersPostUndefined ==
    [kind |-> "object", keys |-> <<"GET", "POST">>, undef |-> {"POST"}]

NoConfig == [skipAppWrapper |-> FALSE, skipInheritedLayouts |-> FALSE]
SkipApp == [skipAppWrapper |-> TRUE, skipInheritedLayouts |-> FALSE]
SkipLayouts == [skipAppWrapper |-> FALSE, skipInheritedLayouts |-> TRUE]

NoComponent == <<>>
Component(routePath) == routePath

\* isHandlerByMethod (handlers.ts): a non-null object, which an array is too.
isHandlerByMethod(handlers) == handlers.kind \in {"object", "array"}

\* The InternalRoute built from a discovered file and its module
\* (lines 186-199).
InternalRoute(routePath, mod) ==
    LET normalizedPath ==
            Slash \o SliceTo(routePath, LastIndexOf(routePath, "."))
        base == SliceTo(normalizedPath, LastIndexOf(normalizedPath, "/"))
    IN  [path |-> normalizedPath,
         filePath |-> routePath,
         base |-> base,
         handlers |-> mod.handlers,
         config |-> mod.config,
         component |-> mod.default]

\* routeModules.sort((a, b) => sortRoutePaths(a.path, b.path)).  No two
\* modules of one run have the same path.
sortModules(mods) ==
    LET paths == ArraySort([k \in 1..Len(mods) |-> mods[k].path])
    IN  [k \in 1..Len(mods) |->
            CHOOSE m \in {mods[j] : j \in 1..Len(mods)} : m.path = paths[k]]

----------------------------------------------------------------------------
(* fsRoutes: the route pattern of a Leaf (pathToPattern is not among the   *)
(* sources: modelled from section 4.3, which names two conversions)        *)

\* [...name] becomes a trailing wildcard capture, [name] a single named
\* parameter, any other segment stays as it is.
patternSegment(seg) ==
    IF StartsWith(seg, <<"[", ".", ".", ".">>) /\ EndsWith(seg, <<"]">>)
    THEN <<":">> \o SubSeq(seg, 5, Len(seg) - 1) \o <<"*">>
    ELSE IF StartsWith(seg, <<"[">>) /\ EndsWith(seg, <<"]">>)
    THEN <<":">> \o SubSeq(seg, 2, Len(seg) - 1)
    ELSE seg

RECURSIVE joinPattern(_)
joinPattern(segs) ==
    IF segs = <<>> THEN <<>>
    ELSE Slash \o patternSegment(Head(segs)) \o joinPattern(Tail(segs))

pathToPattern(path) == joinPattern(Segments(path))

----------------------------------------------------------------------------
(* fsRoutes: the composition resolver (fs.ts lines 204-358)                *)

\* The handlers fsRoutes registers: a function a module exports, or one of
\* the three middlewares built around a component chain and a handler.
Undefined == [path |-> <<>>, key |-> "undefined"]
HandlerOf(mod, key) == [path |-> mod.path, key |-> key]
moduleFn(mod, key) ==
    [g |-> "module", components |-> <<>>, handler |-> HandlerOf(mod, key)]
renderMiddleware(components, handler) ==
    [g |-> "render", components |-> components, handler |-> handler]
errorMiddleware(components, handler) ==
    [g |-> "error", components |-> components, handler |-> handler]
notFoundMiddleware(components, handler) ==
    [g |-> "notFound", components |-> components, handler |-> handler]

\* A pop step that drops nothing.
popNothing(stk, routeMod) == stk

\* Lines 211-218: drop the stack entries the module is not below.  Entries
\* of the root directory (base "") are never dropped.
RECURSIVE popStack(_, _)
popStack(stk, routeMod) ==
    IF /\ Len(stk) > 0
       /\ stk[Len(stk)].base # <<>>
       /\ ~StartsWith(routeMod.path, stk[Len(stk)].base \o Slash)
    THEN popStack(SubSeq(stk, 1, Len(stk) - 1), routeMod)
    ELSE stk

\* Lines 220-239: the files that are pushed on the stack.
isSpecial(normalized) ==
    \/ EndsWith(normalized, Join(<<>>, N_app))
    \/ EndsWith(normalized, Join(<<>>, N_middleware))
    \/ EndsWith(normalized, Join(<<>>, N_layout))
    \/ EndsWith(normalized, Join(<<>>, N_error))
    \/ EndsWith(normalized, Join(<<>>, N_404))
    \/ EndsWith(normalized, Join(<<>>, N_500))

\* Lines 284-290 and 306-312: the handler given to an error or not-found
\* middleware is the module's handlers only when that is one function.
boundaryHandler(mod) ==
    IF mod.handlers.kind = "function" THEN HandlerOf(mod, "fn") ELSE Undefined

\* Lines 296-297
errorParent(mod) ==
    LET parent == DropLast(mod.path, Len(N_error))
    IN  IF parent = Slash THEN <<"*">> ELSE parent \o <<"*">>

\* Lines 250-256: what a _middleware module adds to the Leaf's middlewares.
middlewareFns(mod) ==
    IF mod.handlers.kind # "null" /\ ~isHandlerByMethod(mod.handlers)
    THEN <<moduleFn(mod, "fn")>>
    ELSE IF mod.handlers.kind = "array"
    THEN [k \in 1..Len(mod.handlers.keys) |-> moduleFn(mod, mod.handlers.keys[k])]
    ELSE <<>>

\* A resolver that never leaves the _app module out.
skipsAppNever(mod, skipApp) == FALSE

\* Lines 259-267 with the flags as they are when the statement is reached.
\* skipsAppHere: the branch that leaves the _app module out.
skipsAppHere(mod, skipApp) == skipApp /\ mod.path = Join(<<>>, N_app)

\* A resolver that never leaves a _layout module out.
skipsLayoutNever(mod, skipLayouts) == FALSE

\* Line 270: the branch that leaves a _layout module out.
skipsLayoutHere(mod, skipLayouts) ==
    skipLayouts /\ EndsWith(mod.path, Join(<<>>, N_layout))

\* A reset that keeps the whole chain.
resetKeepsAll(components, keepFirst) == components

\* Lines 275-280: the chain is emptied; its first component is put back when
\* the app wrapper is in use.
resetComponents(components, keepFirst) ==
    IF keepFirst /\ Len(components) > 0 THEN <<components[1]>> ELSE <<>>

\* One iteration of the loop over the stack (lines 248-324).  The state of
\* the iteration is a record: the Leaf's middlewares and components, the
\* skipApp flag, the shared hasApp flag and the router's routes and global
\* middlewares.
composeStep(mod, skipLayouts, a) ==
    LET a1 == IF EndsWith(mod.path, Join(<<>>, N_middleware))
              THEN [a EXCEPT !.middlewares = @ \o middlewareFns(mod)]
              ELSE a
    IN  IF skipsAppHere(mod, a1.skipApp)
        THEN [a1 EXCEPT !.hasApp = FALSE]
        ELSE
        LET a2 == IF ~a1.skipApp /\ mod.config.skipAppWrapper
                  THEN [a1 EXCEPT
                          !.skipApp = TRUE,
                          !.hasApp = FALSE,
                          !.components =
                              IF a1.hasApp /\ Len(@) > 0 THEN Tail(@) ELSE @]
                  ELSE a1
        IN  IF skipsLayoutHere(mod, skipLayouts)
            THEN a2
            ELSE
            LET a3 == IF ~skipLayouts /\ mod.config.skipInheritedLayouts
                      THEN [a2 EXCEPT !.components =
                              resetComponents(@, ~a2.skipApp /\ a2.hasApp)]
                      ELSE a2
                own == IF mod.component # NoComponent
                       THEN <<mod.component>> ELSE <<>>
            IN  IF \/ EndsWith(mod.path, Join(<<>>, N_error))
                   \/ EndsWith(mod.path, Join(<<>>, N_500))
                THEN LET boundary == errorMiddleware(a3.components \o own,
                                                     boundaryHandler(mod))
                     IN  [a3 EXCEPT
                            !.routes = routerAdd(@, "ALL",
                                mergePaths(basePath, errorParent(mod)),
                                <<boundary>>),
                            !.middlewares = Append(@, boundary)]
                ELSE IF EndsWith(mod.path, Join(<<>>, N_404))
                THEN [a3 EXCEPT !.use = routerAddMiddleware(@,
                        notFoundMiddleware(a3.components \o own,
                                           boundaryHandler(mod)))]
                ELSE [a3 EXCEPT !.components = @ \o own]

\* The loop over the stack, from entry k on.
RECURSIVE composeLoop(_, _, _, _)
composeLoop(stk, k, skipLayouts, a) ==
    IF k > Len(stk) THEN a
    ELSE composeLoop(stk, k + 1, skipLayouts, composeStep(stk[k], skipLayouts, a))

\* What the loop over the stack holds after each of its iterations, from
\* entry k on: the components and the two flags.
RECURSIVE composeTrace(_, _, _, _)
composeTrace(stk, k, skipLayouts, a) ==
    IF k > Len(stk) THEN <<>>
    ELSE LET n == composeStep(stk[k], skipLayouts, a)
         IN  <<[components |-> n.components,
                skipApp |-> n.skipApp,
                hasApp |-> n.hasApp]>>
             \o composeTrace(stk, k + 1, skipLayouts, n)

\* A test of a handler's value that takes every key's value as defined.
everyKeyDefined(handlers, key) == TRUE

\* Line 346: fn !== undefined
isDefined(handlers, key) == key \notin handlers.undef

\* Lines 333-357: the registrations of one Leaf, as (method, handlers) pairs.
leafRegistrations(routeMod, mws, components) ==
    LET handlers == routeMod.handlers
        declared == SelectSeq(handlers.keys,
                              LAMBDA key : isDefined(handlers, key))
    IN  IF \/ handlers.kind = "null"
           \/ (isHandlerByMethod(handlers) /\ Len(handlers.keys) = 0)
        THEN <<[method |-> "GET",
                handlers |-> Append(mws, renderMiddleware(components, Undefined))]>>
        ELSE IF isHandlerByMethod(handlers)
        THEN [k \in 1..Len(declared) |->
                [method |-> declared[k],
                 handlers |-> Append(mws, renderMiddleware(components,
                                  HandlerOf(routeMod, declared[k])))]]
        ELSE <<[method |-> "ALL",
                handlers |-> Append(mws, renderMiddleware(components,
                                 HandlerOf(routeMod, "fn")))]>>

RECURSIVE registerAll(_, _, _)
registerAll(rs, pattern, regs) ==
    IF regs = <<>> THEN rs
    ELSE registerAll(routerAdd(rs, Head(regs).method,
                               mergePaths(basePath, pattern),
                               Head(regs).handlers),
                     pattern, Tail(regs))

\* Lines 241-358 for one Leaf: the state of the loop when it ends, with the
\* Leaf's own component added and the Leaf registered.
composeLeaf(routeMod, stk, flag, rs, ms) ==
    LET start == [middlewares |-> <<>>,
                  components |-> <<>>,
                  skipApp |-> routeMod.config.skipAppWrapper,
                  hasApp |-> flag,
                  routes |-> rs,
                  use |-> ms]
        a == composeLoop(stk, 1, routeMod.config.skipInheritedLayouts, start)
        components == IF routeMod.component # NoComponent
                      THEN Append(a.components, routeMod.component)
                      ELSE a.components
        routePath == pathToPattern(SliceFrom(routeMod.path, 1))
    IN  [a EXCEPT
           !.components = components,
           !.routes = registerAll(@, routePath,
               leafRegistrations(routeMod, a.middlewares, components))]

----------------------------------------------------------------------------
(* Specification SpecFs: fsRoutes over a drawn routes directory            *)

\* Files of one routes directory tree.
MaxFiles == 4

FsRoot == {N_app, N_layout, N_index}
FsFoo == {N_middleware, N_layout, N_index, N_about}

\* relRoutePaths can hold: paths relative to the routes directory.
FsFiles ==
    {n \o Ext : n \in FsRoot} \cup {N_foo \o Slash \o n \o Ext : n \in FsFoo}

\* The file name without directory and extension.
stem(routePath) ==
    LET name == SliceFrom(routePath, LastIndexOf(routePath, "/") + 1)
    IN  SliceTo(name, LastIndexOf(name, "."))

\* The modules loadRoute can return for a file.
Exports(routePath) ==
    LET own == Component(routePath)
        n == stem(routePath)
    IN  IF n = N_app
        THEN {[handlers |-> NoHandlers, config |-> NoConfig, default |-> own]}
        ELSE IF n = N_middleware
        THEN {[handlers |-> h, config |-> NoConfig, default |-> NoComponent] :
                 h \in {OneHandler, HandlerArray}}
        ELSE IF n = N_layout
        THEN {[handlers |-> NoHandlers, config |-> c, default |-> own] :
                 c \in {NoConfig, SkipLayouts}}
        ELSE IF n = N_index
        THEN {[handlers |-> NoHandlers, config |-> c, default |-> own] :
                 c \in {NoConfig, SkipApp, SkipLayouts}}
        ELSE IF n \in {N_error, N_404, N_500}
        THEN {[handlers |-> NoHandlers, config |-> NoConfig, default |-> own],
              [handlers |-> OneHandler, config |-> NoConfig, default |-> own],
              [handlers |-> OneHandler, config |-> NoConfig,
               default |-> NoComponent]}
        ELSE IF n = N_bar
        THEN {[handlers |-> h, config |-> NoConfig, default |-> own] :
                 h \in {NoHandlers, HandlersByMethod, HandlersPostOnly}}
        ELSE IF n \in {N_id, N_slug}
        THEN {[handlers |-> h, config |-> NoConfig, default |-> own] :
                 h \in {NoHandlers, OneHandler}}
        ELSE IF n = N_baz
        THEN {[handlers |-> h, config |-> NoConfig, default |-> c] :
                 h \in {OneHandler, HandlersByMethod, HandlersPostOnly,
                        HandlersEmpty, HandlersPostUndefined},
                 c \in {own, NoComponent}}
             \cup {[handlers |-> NoHandlers, config |-> NoConfig, default |-> own]}
        ELSE {[handlers |-> h, config |-> c, default |-> own] :
                 h \in {OneHandler, HandlersByMethod},
                 c \in {NoConfig, SkipApp}}

\* loadRoute over a set of files: one module for each.
RECURSIVE Loads(_)
Loads(S) ==
    IF S = {} THEN {<<>>}
    ELSE LET f == CHOOSE x \in S : TRUE
         IN  {(f :> e) @@ l : e \in Exports(f), l \in Loads(S \ {f})}

\* The state when the modules of a drawn set of files have been loaded.
FsInitOver(universe) ==
    /\ SortIdle /\ AppIdle /\ ReqIdle /\ CallIdle /\ EnvIdle /\ LoadIdle
    /\ \E S \in SUBSET universe :
          /\ Cardinality(S) <= MaxFiles
          /\ \E order \in Orderings(S) :
             \E load \in Loads(S) :
                routeModules =
                    [k \in 1..Len(order) |-> InternalRoute(order[k], load[order[k]])]
    /\ fi = 0
    /\ stack = <<>>
    /\ hasApp = FALSE
    /\ fsLog = <<>>

FsInit == FsInitOver(FsFiles)

\* Line 202
SortModules ==
    /\ loadState.state = "loaded"
    /\ fi = 0
    /\ routeModules' = sortModules(routeModules)
    /\ fi' = 1
    /\ UNCHANGED <<stack, hasApp, fsLog>>
    /\ UNCHANGED <<flightVars, mountVars, loadVars, envVars, callVars, sortVars, appVars, reqVars>>

\* One iteration of the loop over routeModules for a file that goes on the
\* stack (lines 207-239).
PushSpecial ==
    /\ fi >= 1 /\ fi <= Len(routeModules)
    /\ isSpecial(routeModules[fi].path)
    /\ stack' = Append(popStack(stack, routeModules[fi]), routeModules[fi])
    /\ hasApp' = (hasApp \/ EndsWith(routeModules[fi].path, Join(<<>>, N_app)))
    /\ fi' = fi + 1
    /\ UNCHANGED <<routeModules, fsLog>>
    /\ UNCHANGED <<flightVars, mountVars, loadVars, envVars, callVars, sortVars, appVars, reqVars>>

\* One iteration for a Leaf (lines 207-218 and 241-358).
ComposeLeaf ==
    /\ fi >= 1 /\ fi <= Len(routeModules)
    /\ ~isSpecial(routeModules[fi].path)
    /\ LET routeMod == routeModules[fi]
           stk == popStack(stack, routeMod)
           a == composeLeaf(routeMod, stk, hasApp, routes, middlewares)
       IN  /\ stack' = stk
           /\ hasApp' = a.hasApp
           /\ routes' = a.routes
           /\ middlewares' = a.use
           /\ fsLog' = Append(fsLog, [path |-> routeMod.path,
                                      config |-> routeMod.config,
                                      stack |-> stk,
                                      components |-> a.components,
                                      middlewares |-> a.middlewares,
                                      hasApp |-> hasApp,
                                      steps |-> composeTrace(stk, 1,
                                          routeMod.config.skipInheritedLayouts,
                                          [middlewares |-> <<>>,
                                           components |-> <<>>,
                                           skipApp |-> routeMod.config.skipAppWrapper,
                                           hasApp |-> hasApp,
                                           routes |-> routes,
                                           use |-> middlewares])])
    /\ fi' = fi + 1
    /\ UNCHANGED <<routeModules, islandRegistry, islandNames>>
    /\ UNCHANGED <<flightVars, mountVars, loadVars, envVars, callVars, sortVars, reqVars>>

FsNext == SortModules \/ PushSpecial \/ ComposeLeaf

SpecFs == FsInit /\ [][FsNext]_vars

----------------------------------------------------------------------------
(* Composition claims                                                      *)

hasModule(path) == \E k \in DOMAIN routeModules : routeModules[k].path = path
moduleAt(path) ==
    routeModules[CHOOSE k \in DOMAIN routeModules : routeModules[k].path = path]
Range(s) == {s[k] : k \in DOMAIN s}

\* Whether a module's directory is the directory of the Leaf or above it.
isAbove(mod, leaf) ==
    mod.base = <<>> \/ StartsWith(leaf.path, mod.base \o Slash)

\* The case of C10 for a Leaf that has been composed: it declares
\* skipAppWrapper (and not skipInheritedLayouts) and has a component, its
\* directory has a _middleware and a _layout, that _layout is the only one
\* above the Leaf, and the root has an _app.
skipAppCase(leaf) ==
    /\ leaf.config.skipAppWrapper
    /\ ~leaf.config.skipInheritedLayouts
    /\ leaf.component # NoComponent
    /\ hasModule(Join(<<>>, N_app))
    /\ hasModule(Join(leaf.base, N_middleware))
    /\ hasModule(Join(leaf.base, N_layout))
    /\ \A k \in DOMAIN routeModules :
          (/\ EndsWith(routeModules[k].path, Join(<<>>, N_layout))
           /\ isAbove(routeModules[k], leaf))
          => routeModules[k].path = Join(leaf.base, N_layout)

skipAppChain(e) ==
    LET leaf == moduleAt(e.path)
        layout == moduleAt(Join(leaf.base, N_layout))
        mw == moduleAt(Join(leaf.base, N_middleware))
    IN  /\ e.components = <<layout.component, leaf.component>>
        /\ moduleAt(Join(<<>>, N_app)).component \notin Range(e.components)
        /\ \A k \in DOMAIN mw.handlers.keys :
              moduleFn(mw, mw.handlers.keys[k]) \in Range(e.middlewares)
        /\ \E r \in DOMAIN routes :
              /\ Len(routes[r].handlers) = Len(e.middlewares) + 1
              /\ SubSeq(routes[r].handlers, 1, Len(e.middlewares)) = e.middlewares
              /\ routes[r].handlers[Len(e.middlewares) + 1].g = "render"
              /\ routes[r].handlers[Len(e.middlewares) + 1].components
                     = e.components

\* C10: for a Leaf declaring skipAppWrapper in a directory that has a
\* _middleware and a _layout, with a root _app present, the component chain
\* composed for the Leaf is exactly the Layout's component followed by the
\* Leaf's component, the App component is absent from it, and the functions
\* of the directory's middleware are in the handler chain registered for the
\* Leaf, before the render handler that carries the component chain.
C10_SkipAppWrapperChain ==
    \A k \in DOMAIN fsLog :
        skipAppCase(moduleAt(fsLog[k].path)) => skipAppChain(fsLog[k])

C10_Witness ==
    \E k \in DOMAIN fsLog :
        /\ skipAppCase(moduleAt(fsLog[k].path))
        /\ skipAppChain(fsLog[k])
        /\ Len(fsLog[k].stack) = 3

----------------------------------------------------------------------------
(* Specification SpecFsDeep: fsRoutes over trees two directories deep      *)

FooBar == N_foo \o Slash \o N_bar

FsDeepFiles ==
    {N_app \o Ext, N_layout \o Ext,
     N_foo \o Slash \o N_layout \o Ext,
     N_foo \o Slash \o N_index \o Ext,
     FooBar \o Slash \o N_layout \o Ext,
     FooBar \o Slash \o N_index \o Ext}

FsDeepInit == FsInitOver(FsDeepFiles)

SpecFsDeep == FsDeepInit /\ [][FsNext]_vars

\* Directory nesting depth of a module: the number of "/" in its base.
depth(mod) == Cardinality({k \in DOMAIN mod.base : mod.base[k] = "/"})

\* The case of C11 for a Leaf that has been composed: two directories deep,
\* declaring skipInheritedLayouts, with a component, and the _layout of its
\* own directory is the only _layout above it.
skipLayoutsCase(leaf) ==
    /\ leaf.config.skipInheritedLayouts
    /\ leaf.component # NoComponent
    /\ depth(leaf) = 2
    /\ hasModule(Join(leaf.base, N_layout))
    /\ \A k \in DOMAIN routeModules :
          (/\ EndsWith(routeModules[k].path, Join(<<>>, N_layout))
           /\ isAbove(routeModules[k], leaf))
          => routeModules[k].path = Join(leaf.base, N_layout)

noLayoutChain(leaf) ==
    (IF hasModule(Join(<<>>, N_app)) /\ ~leaf.config.skipAppWrapper
     THEN <<moduleAt(Join(<<>>, N_app)).component>> ELSE <<>>)
    \o <<leaf.component>>

----------------------------------------------------------------------------
(* Serving requests with the routes fsRoutes registered                    *)

\* What a route handler or a component may throw.
FsThrown == Thrown \cup {HttpError(404)}

\* Line 38 of render_middleware.ts
NoComponents ==
    [http |-> FALSE, status |-> 0,
     message |-> "Did not receive any components to render."]

\* The kind of the handler that is running.
running(g) == phase = "running" /\ top.st = "run" /\ chain[top.h].g = g

\* `await fsRoutes(app, ...)` has returned and app.handler() is called.
Listen ==
    /\ fi >= 1 /\ fi > Len(routeModules)
    /\ BuildHandler

\* A renderMiddleware is running: one of a chain, or the one inside an error
\* or not-found boundary that has caught.
rendering ==
    \/ running("render")
    \/ /\ phase = "running" /\ top.st = "mid"
       /\ chain[top.h].g \in {"error", "notFound"}

\* renderMiddleware, lines 27-32: the handler answers with a Response.
RenderResponds ==
    /\ rendering
    /\ chain[top.h].handler # Undefined
    /\ ReturnFrom(Response(200, "ok"))
    /\ UNCHANGED <<flightVars, mountVars, loadVars, envVars, callVars, sortVars, appVars, fsVars>>

\* renderMiddleware: the handler or a component throws, or (lines 37-39)
\* there is no component to render.  The middleware is an async function:
\* every failure arrives through the promise it returned.
RenderThrows ==
    /\ rendering
    /\ \E err \in FsThrown \cup {NoComponents} :
          /\ err = NoComponents => chain[top.h].components = <<>>
          /\ err # NoComponents =>
                (chain[top.h].handler # Undefined \/ chain[top.h].components # <<>>)
          /\ ThrowFrom(err, TRUE)
    /\ UNCHANGED <<flightVars, mountVars, loadVars, envVars, callVars, sortVars, appVars, fsVars>>

\* renderMiddleware, lines 41-74: the component chain is rendered, each
\* component given ctx.error.
RenderPage ==
    /\ rendering
    /\ chain[top.h].components # <<>>
    /\ ReturnAs("page", Response(200, "page"), ctx.error)
    /\ UNCHANGED <<flightVars, mountVars, loadVars, envVars, callVars, sortVars, appVars, fsVars>>

----------------------------------------------------------------------------
(* Specification SpecFsMatch: a static, a parameter and a catch-all Leaf   *)
(* of one directory, and requests to that directory                        *)

FsMatchFiles ==
    {N_foo \o Slash \o n \o Ext : n \in {N_layout, N_bar, N_id, N_slug}}

X == <<"x">>
FsRawPaths ==
    {<<N_foo, N_bar>>, <<N_foo, X>>, <<N_foo, N_bar, X>>, <<<<>>, N_foo, N_bar>>}

FsMatchInit == FsInitOver(FsMatchFiles)

FsReceive ==
    /\ phase = "idle"
    /\ \E method \in Methods, raw \in FsRawPaths : ReceiveOf(method, raw)
    /\ UNCHANGED <<flightVars, mountVars, loadVars, envVars, callVars, sortVars, appVars, fsVars>>

FsMatchNext ==
    \/ SortModules
    \/ PushSpecial
    \/ ComposeLeaf
    \/ Listen
    \/ FsReceive
    \/ RenderResponds
    \/ RenderThrows
    \/ RenderPage

SpecFsMatch == FsMatchInit /\ [][FsMatchNext]_vars

\* The route patterns of the three Leaves.
StaticPattern == pathToPattern(N_foo \o Slash \o N_bar)
ParamPattern == pathToPattern(N_foo \o Slash \o N_id)
CatchAllPattern == pathToPattern(N_foo \o Slash \o N_slug)

\* Every registration with the first pattern precedes every registration
\* with the second.
registeredBefore(p, q) ==
    \A i \in DOMAIN routes, j \in DOMAIN routes :
        (routes[i].pattern = p /\ routes[j].pattern = q) => i < j

\* The registrations of a pattern that serve a method.
serving(p, method) ==
    {r \in DOMAIN routes :
        routes[r].pattern = p /\ routes[r].method \in {"ALL", method}}

\* The request in hand has been matched and is a GET of the pathname.
gotRequest(pathname) ==
    /\ phase \in {"running", "done"}
    /\ req.method = "GET"
    /\ req.pathname = pathname

----------------------------------------------------------------------------
(* The error and not-found boundaries (fs.ts lines 361-391)                *)

isBoundary == phase = "running" /\ chain[top.h].g \in {"error", "notFound"}
isModuleFn == phase = "running" /\ chain[top.h].g = "module"

\* Lines 367-368 and 382-383: `return await ctx.next()`
BoundaryCallsNext == isBoundary /\ HandlerCallsNext

\* ctx.next() gave a response: the boundary returns it.
BoundaryReturns == isBoundary /\ HandlerReturnsNext

\* Boundaries that intercept whatever is thrown.
interceptsAll(g, err) == TRUE

\* Whether a boundary intercepts a thrown value: errorMiddleware every one
\* (line 369), notFoundMiddleware an HttpError of status 404 (line 385).
neverIntercepts(g, err) == FALSE
intercepts(g, err) == g = "error" \/ (err.http /\ err.status = 404)

\* Lines 369-372 and 384-388: ctx.next() failed and the boundary intercepts:
\* errorMiddleware stores the value in ctx.error; then mid(ctx) runs.
BoundaryCatches ==
    /\ isBoundary /\ top.st = "failed"
    /\ intercepts(chain[top.h].g, top.err)
    /\ ctx' = IF chain[top.h].g = "error"
              THEN [ctx EXCEPT !.error = top.err] ELSE ctx
    /\ frames' = [frames EXCEPT ![Len(frames)] =
                      Frame(@.h, "mid", NoResponse, @.err)]
    /\ trace' = Append(trace, Event("catch", top.h, 0, top.err))
    /\ UNCHANGED <<phase, req, matched, outcome>>
    /\ UNCHANGED <<flightVars, mountVars, loadVars, envVars, callVars, sortVars, appVars, fsVars>>

\* Line 389: notFoundMiddleware throws what it does not intercept again.
BoundaryRethrows ==
    /\ isBoundary /\ top.st = "failed"
    /\ ~intercepts(chain[top.h].g, top.err)
    /\ ThrowFrom(top.err, TRUE)
    /\ UNCHANGED <<flightVars, mountVars, loadVars, envVars, callVars, sortVars, appVars, fsVars>>

\* The functions a _middleware module exports are opaque: what an invocation
\* does is chosen when it runs.
ModuleResponds == isModuleFn /\ HandlerResponds
ModuleCallsNext == isModuleFn /\ HandlerCallsNext
ModuleThrows == isModuleFn /\ HandlerThrows
ModuleReturnsNext == isModuleFn /\ HandlerReturnsNext
ModuleWraps == isModuleFn /\ HandlerWraps
ModuleRethrows == isModuleFn /\ HandlerRethrows
ModuleRecovers == isModuleFn /\ HandlerRecovers

----------------------------------------------------------------------------
(* Specification SpecFsBoundary: a Leaf below an _error, a _404 and a      *)
(* _middleware, and requests the router resolves to a registration         *)

FsBoundaryFiles ==
    {N_404 \o Ext,
     N_foo \o Slash \o N_error \o Ext,
     N_foo \o Slash \o N_middleware \o Ext,
     N_foo \o Slash \o N_bar \o Ext}

FsBoundaryInit == FsInitOver(FsBoundaryFiles)

\* router.match resolving a request to registration r: the global
\* middlewares, then the handlers of r.
matchOf(r, pathname) ==
    [params |-> patternParams(routes[r].path, pathname),
     handlers |-> (IF Len(middlewares) > 0 THEN <<middlewares>> ELSE <<>>)
                  \o <<routes[r].handlers>>,
     patternMatch |-> TRUE,
     methodMatch |-> TRUE]

\* The request function for a request that a registration serves.
FsReceiveFor ==
    /\ phase = "idle"
    /\ \E r \in DOMAIN routes, method \in Methods, raw \in FsRawPaths :
          /\ routes[r].method \in {"ALL", method}
          /\ patternMatches(routes[r].path, normalizePath(raw))
          /\ Dispatch(method, raw, matchOf(r, normalizePath(raw)))
    /\ UNCHANGED <<flightVars, mountVars, loadVars, envVars, callVars, sortVars, appVars, fsVars>>

FsBoundaryNext ==
    \/ SortModules
    \/ PushSpecial
    \/ ComposeLeaf
    \/ Listen
    \/ FsReceiveFor
    \/ RenderResponds
    \/ RenderThrows
    \/ RenderPage
    \/ BoundaryCallsNext
    \/ BoundaryReturns
    \/ BoundaryCatches
    \/ BoundaryRethrows
    \/ ModuleResponds
    \/ ModuleCallsNext
    \/ ModuleThrows
    \/ ModuleReturnsNext
    \/ ModuleWraps
    \/ ModuleRethrows
    \/ ModuleRecovers

SpecFsBoundary == FsBoundaryInit /\ [][FsBoundaryNext]_vars

----------------------------------------------------------------------------
(* Claims on the boundaries                                                *)

\* The events of catches by error boundaries, and the value of the last one.
errorCatches ==
    {k \in DOMAIN trace :
        trace[k].e = "catch" /\ chain[trace[k].h].g = "error"}
lastCaught ==
    IF errorCatches = {} THEN NoError
    ELSE trace[CHOOSE k \in errorCatches : \A j \in errorCatches : j <= k].err

\* A value is thrown into an error boundary: by the handler that follows it
\* in the chain.
thrownIntoError(k) ==
    /\ trace[k].e \in {"throw", "default"}
    /\ LET j == IF trace[k].e = "default" THEN Len(chain) + 1 ELSE trace[k].h
       IN  j > 1 /\ chain[j - 1].g = "error"

\* C13: a value thrown by the Leaf's handler (or by anything else the error
\* boundary of the Leaf's chain has called) is caught by the boundary, which
\* stores exactly that value in ctx.error; the error component chain is
\* rendered with that value as its error; when it has been rendered the
\* response of the request is that page, not the dispatcher's 500; and
\* ctx.error is null as long as no error boundary has caught anything.
C13_ErrorBoundaryCatches ==
    /\ ctx.error = lastCaught
    /\ \A k \in DOMAIN trace :
          (thrownIntoError(k) /\ trace[k].e = "throw" /\ k < Len(trace)) =>
              trace[k + 1] = Event("catch", trace[k].h - 1, 0, trace[k].err)
    /\ \A k \in errorCatches :
          (k < Len(trace) /\ trace[k + 1].e = "page") =>
              /\ trace[k + 1].h = trace[k].h
              /\ trace[k + 1].err = trace[k].err
    /\ (phase = "done" /\ \E k \in errorCatches :
            k < Len(trace) /\ trace[k + 1].e = "page") =>
          outcome = Response(200, "page")

C13_Witness ==
    /\ phase = "done"
    /\ outcome = Response(200, "page")
    /\ \E k \in DOMAIN trace :
          /\ k + 2 <= Len(trace)
          /\ trace[k].e = "throw"
          /\ chain[trace[k].h].g = "render"
          /\ chain[trace[k].h].handler # Undefined
          /\ trace[k].err = Boom
          /\ trace[k + 1] = Event("catch", trace[k].h - 1, 0, Boom)
          /\ chain[trace[k].h - 1].g = "error"
          /\ trace[k + 2] = Event("page", trace[k].h - 1, 200, Boom)

\* In the next state the running handler has returned res, to its caller
\* or as the response of the request.
returnedNext(res) ==
    IF Len(frames) = 1
    THEN phase' = "done" /\ outcome' = res
    ELSE /\ Len(frames') = Len(frames) - 1
         /\ frames'[Len(frames')].st = "got"
         /\ frames'[Len(frames')].res = res

\* In the next state the running handler has failed with err, into its
\* caller or out of the chain.
thrownNext(err) ==
    IF Len(frames) = 1
    THEN phase' = "done" /\ outcome' = settleThrown(fast, err, TRUE)
    ELSE /\ Len(frames') = Len(frames) - 1
         /\ frames'[Len(frames')].st = "failed"
         /\ frames'[Len(frames')].err = err

\* In the next state the boundary is running its own renderMiddleware.
caughtNext ==
    /\ Len(frames') = Len(frames)
    /\ frames'[Len(frames')].h = top.h
    /\ frames'[Len(frames')].st = "mid"

is404(err) == err.http /\ err.status = 404

\* What C14 says of one step of a boundary.
boundaryStep ==
    /\ (isBoundary /\ top.st = "got") => returnedNext(top.res)
    /\ (isBoundary /\ top.st = "failed" /\ chain[top.h].g = "notFound") =>
          IF is404(top.err)
          THEN caughtNext /\ ctx' = ctx
          ELSE thrownNext(top.err)
    /\ (isBoundary /\ top.st = "failed" /\ chain[top.h].g = "error") =>
          caughtNext /\ ctx'.error = top.err

\* C14: the not-found boundary intercepts only an HttpError of status 404
\* thrown by the rest of the chain and throws every other value again
\* unchanged; the error boundary intercepts every thrown value; and a
\* response the rest of the chain returned goes through either boundary
\* unchanged.
C14_BoundaryInterception == [][boundaryStep]_vars

\* A not-found boundary has thrown a value that is no 404 again, after an
\* error boundary below it let the failure of its own page out; and a 404
\* has been intercepted by a not-found boundary.
C14_Witness ==
    \E k \in DOMAIN trace :
        /\ k + 1 <= Len(trace)
        /\ trace[k].e = "throw" /\ trace[k].h > 1
        /\ ~is404(trace[k].err)
        /\ chain[trace[k].h - 1].g = "notFound"
        /\ trace[k + 1] = Event("throw", trace[k].h - 1, 0, trace[k].err)

C14_WitnessCaught ==
    \E k \in DOMAIN trace :
        /\ trace[k].e = "catch"
        /\ chain[trace[k].h].g = "notFound"
        /\ is404(trace[k].err)

----------------------------------------------------------------------------
(* FreshReqContext.redirect (config.ts lines 168-191)                      *)

\* s.indexOf(c), 0-based, -1 when absent
IndexOf(s, c) ==
    IF \E k \in 1..Len(s) : s[k] = c
    THEN (CHOOSE k \in 1..Len(s) :
              s[k] = c /\ \A m \in 1..(k - 1) : s[m] # c) - 1
    ELSE -1

\* A replacement that leaves every slash in place.
keepSlashes(s) == s

\* s.replaceAll(/\/+/g, "/"): every run of slashes becomes one slash.
RECURSIVE collapseSlashes(_)
collapseSlashes(s) ==
    IF Len(s) < 2 THEN s
    ELSE IF s[1] = "/" /\ s[2] = "/" THEN collapseSlashes(Tail(s))
    ELSE <<s[1]>> \o collapseSlashes(Tail(s))

\* The default of the status parameter.
DefaultRedirectStatus == 302

\* redirect(pathOrUrl, status = 302); status 0 stands for an absent argument.
redirect(target, status) ==
    LET split == IF IndexOf(target, "?") = -1
                 THEN IndexOf(target, "#") ELSE IndexOf(target, "?")
        pathname == IF split > -1 THEN SliceTo(target, split) ELSE target
        search == IF split > -1 THEN SliceFrom(target, split) ELSE <<>>
        location == IF target # Slash /\ StartsWith(target, Slash)
                    THEN collapseSlashes(pathname) \o search
                    ELSE target
    IN  [done |-> TRUE,
         status |-> IF status = 0 THEN DefaultRedirectStatus ELSE status,
         location |-> location]

\* Length of the redirect targets drawn.
MaxTargetLen == 4

TargetChars == {"/", "?", "#", "a"}
RedirectStatuses == {0, 301, 307}

RECURSIVE StringsUpTo(_)
StringsUpTo(n) ==
    IF n = 0 THEN {<<>>}
    ELSE StringsUpTo(n - 1) \cup
         {Append(t, c) : t \in {u \in StringsUpTo(n - 1) : Len(u) = n - 1},
                         c \in TargetChars}

RedirectInit ==
    /\ pathOrUrl \in StringsUpTo(MaxTargetLen)
    /\ statusArg \in RedirectStatuses
    /\ redirected = NoRedirect
    /\ SortIdle /\ AppIdle /\ ReqIdle /\ FsIdle /\ EnvIdle

Redirect ==
    /\ ~redirected.done
    /\ redirected' = redirect(pathOrUrl, statusArg)
    /\ UNCHANGED <<pathOrUrl, statusArg, sortVars, appVars, reqVars, fsVars, envVars, loadVars, mountVars, flightVars>>

SpecRedirect == RedirectInit /\ [][Redirect]_vars

\* C15: for every target that begins with "/", with any number of leading
\* slashes and with or without a query or a fragment, the Location of the
\* response redirect returns does not begin with "//"; the status is the
\* one given, or 302 when none is given.
C15_NoProtocolRelativeLocation ==
    redirected.done =>
        /\ StartsWith(pathOrUrl, Slash) =>
              ~StartsWith(redirected.location, <<"/", "/">>)
        /\ redirected.status = IF statusArg = 0 THEN 302 ELSE statusArg

C15_Witness ==
    /\ redirected.done
    /\ pathOrUrl = <<"/", "/", "a", "?">>
    /\ statusArg = 0
    /\ redirected.location = <<"/", "a", "?">>
    /\ redirected.status = 302

----------------------------------------------------------------------------
(* Specification SpecMissingBuild: App.handler with or without a           *)
(* production build snapshot (app.ts lines 171-177 and 261-269)            *)

HtmlContentType == "text/html; charset=utf-8"

\* missingBuildHandler: the page is FinishSetup when DENO_DEPLOYMENT_ID is
\* set and ForgotBuild otherwise.
missingBuildHandler ==
    [type |-> "response",
     status |-> 500,
     body |-> IF deploymentId THEN "FinishSetup" ELSE "ForgotBuild",
     value |-> NoError,
     contentType |-> HtmlContentType]

MissingBuildInit ==
    /\ SortIdle /\ AppIdle /\ ReqIdle /\ FsIdle /\ CallIdle
    /\ hasSnapshot \in BOOLEAN
    /\ deploymentId \in BOOLEAN

\* Lines 175-177: app.handler() returns missingBuildHandler.
BuildMissing ==
    /\ phase = "setup"
    /\ snapshotMissing
    /\ phase' = "missing"
    /\ UNCHANGED <<req, matched, ctx, frames, outcome, trace>>
    /\ UNCHANGED <<flightVars, mountVars, loadVars, envVars, callVars, sortVars, appVars, fsVars>>

\* A request served by missingBuildHandler, which takes no argument.
ReceiveMissing ==
    /\ phase = "missing"
    /\ \E method \in Methods, raw \in RawPaths :
          req' = [method |-> method, path |-> raw, pathname |-> <<>>]
    /\ outcome' = missingBuildHandler
    /\ phase' = "done"
    /\ UNCHANGED <<matched, ctx, frames, trace>>
    /\ UNCHANGED <<flightVars, mountVars, loadVars, envVars, callVars, sortVars, appVars, fsVars>>

MissingBuildNext == Next \/ BuildMissing \/ ReceiveMissing

SpecMissingBuild == MissingBuildInit /\ [][MissingBuildNext]_vars

\* C16: without a production build snapshot every request, whatever its
\* method and path and whatever is registered, gets a response of status 500
\* with a text/html content type; nothing is matched and no handler or
\* middleware runs; the body is one of two fixed pages, chosen by whether the
\* deployment identifier is present.
C16_MissingBuildPage ==
    ~hasSnapshot =>
        /\ phase \in {"setup", "missing", "done"}
        /\ matched = NoMatch /\ ctx = NoCtx /\ frames = <<>> /\ trace = <<>>
        /\ phase = "done" =>
              /\ outcome.type = "response"
              /\ outcome.status = 500
              /\ outcome.contentType = "text/html; charset=utf-8"
              /\ outcome.body = IF deploymentId THEN "FinishSetup"
                                ELSE "ForgotBuild"

C16_Witness ==
    /\ ~hasSnapshot /\ deploymentId
    /\ phase = "done"
    /\ outcome.status = 500 /\ outcome.body = "FinishSetup"
    /\ Len(middlewares) > 0 /\ Len(routes) > 0
    /\ routes[1].handlers # <<>>
    /\ routes[1].method \in {"ALL", req.method}
    /\ patternMatches(routes[1].path, normalizePath(req.path))

----------------------------------------------------------------------------
(* Specification SpecFsLoad: fsRoutes from the loading of the route        *)
(* modules on (fs.ts lines 168-202, isFreshFile lines 85-91)               *)

\* The value of one export of a module: its typeof, for a function its
\* length (the number of parameters declared), for an object its keys.
NoExport == [kind |-> "undefined", keys |-> <<>>, undef |-> {}, length |-> 0]
ExportFn(n) ==
    [kind |-> "function", keys |-> <<"fn">>, undef |-> {}, length |-> n]
ExportObject ==
    [kind |-> "object", keys |-> <<"GET", "POST">>, undef |-> {}, length |-> 0]

\* typeof v
typeOf(v) == IF v.kind \in {"null", "array"} THEN "object" ELSE v.kind

\* An isFreshFile that accepts every module.
isFreshFileAlways(mod) == TRUE

\* isFreshFile (lines 85-91); a module namespace is a non-null object.
isFreshFile(mod) ==
    \/ typeOf(mod.default) = "function"
    \/ typeOf(mod.config) = "object"
    \/ typeOf(mod.handlers) = "object"
    \/ typeOf(mod.handlers) = "function"
    \/ typeOf(mod.handler) = "object"
    \/ typeOf(mod.handler) = "function"

\* mod.handlers ?? mod.handler ?? null (lines 177 and 194)
handlersOf(mod) ==
    IF mod.handlers.kind # "undefined" THEN mod.handlers
    ELSE IF mod.handler.kind # "undefined" THEN mod.handler
    ELSE [kind |-> "null", keys |-> <<>>, undef |-> {}, length |-> 0]

\* The directory fsRoutes reads the routes from: path.join(options.dir,
\* "routes") with options.dir = "."
RoutesDir == <<"r", "o", "u", "t", "e", "s">>

\* What the callback of relRoutePaths.map ends in for a file: the Error it
\* throws, with the path its message gives, or no error.
loadError(routePath, mod) ==
    IF ~isFreshFile(mod)
    THEN [state |-> "failed",
          message |-> "Expected a route, middleware, layout or error template",
          path |-> routePath]
    ELSE IF handlersOf(mod).kind = "function" /\ handlersOf(mod).length > 1
    THEN [state |-> "failed",
          message |-> "Handlers must only have one argument",
          path |-> RoutesDir \o Slash \o routePath]
    ELSE LoadState("loaded")

\* The module as InternalRoute keeps it (lines 190-198).
exportsOf(routePath, mod) ==
    [handlers |-> [kind |-> handlersOf(mod).kind,
                   keys |-> handlersOf(mod).keys,
                   undef |-> handlersOf(mod).undef],
     config |-> IF mod.config.kind = "undefined" THEN NoConfig ELSE mod.config.value,
     default |-> IF mod.default.kind = "undefined" THEN NoComponent
                 ELSE Component(routePath)]

MaxLoadFiles == 2

FsLoadFiles ==
    {N_index \o Ext, N_foo \o Slash \o N_bar \o Ext,
     N_foo \o Slash \o N_middleware \o Ext}

\* What loadRoute can return for a file.
ModuleExports ==
    [default : {NoExport, ExportFn(1)},
     config : {NoExport,
               [kind |-> "object", keys |-> <<>>, undef |-> {}, length |-> 0,
                value |-> SkipApp]},
     handlers : {NoExport, ExportObject, ExportFn(1), ExportFn(2)},
     handler : {NoExport, ExportFn(2)}]

FsLoadInit ==
    /\ SortIdle /\ AppIdle /\ ReqIdle /\ CallIdle /\ EnvIdle
    /\ \E S \in SUBSET FsLoadFiles :
          /\ Cardinality(S) <= MaxLoadFiles
          /\ relRoutePaths \in Orderings(S)
          /\ loaded \in [S -> ModuleExports]
    /\ loadState = LoadState("pending")
    /\ MountIdle
    /\ FlightIdle
    /\ routeModules = <<>>
    /\ fi = 0
    /\ stack = <<>>
    /\ hasApp = FALSE
    /\ fsLog = <<>>

\* Lines 168-200: Promise.all over the loading of every file.  It rejects
\* with the error of whichever callback throws first, and then fsRoutes
\* throws that error; otherwise routeModules holds one InternalRoute for
\* each file, in the order of relRoutePaths.
LoadRoutes ==
    /\ loadState.state = "pending"
    /\ LET failing == {k \in DOMAIN relRoutePaths :
                          loadError(relRoutePaths[k],
                                    loaded[relRoutePaths[k]]).state = "failed"}
       IN  IF failing # {}
           THEN /\ \E k \in failing :
                      loadState' = loadError(relRoutePaths[k],
                                             loaded[relRoutePaths[k]])
                /\ UNCHANGED routeModules
           ELSE /\ loadState' = LoadState("loaded")
                /\ routeModules' =
                      [k \in DOMAIN relRoutePaths |->
                          InternalRoute(relRoutePaths[k],
                              exportsOf(relRoutePaths[k],
                                        loaded[relRoutePaths[k]]))]
    /\ UNCHANGED <<relRoutePaths, loaded, fi, stack, hasApp, fsLog>>
    /\ UNCHANGED <<flightVars, mountVars, envVars, callVars, sortVars, appVars, reqVars>>

FsLoadNext == LoadRoutes \/ FsNext

SpecFsLoad == FsLoadInit /\ [][FsLoadNext]_vars

\* The module of the k-th file exports none of default, config, handler and
\* handlers.
exportsNothing(k) ==
    LET mod == loaded[relRoutePaths[k]]
    IN  /\ mod.default = NoExport /\ mod.config = NoExport
        /\ mod.handler = NoExport /\ mod.handlers = NoExport

\* The handler of the k-th file's module (handlers, or handler when there is
\* no handlers) is one function declaring more than one parameter.
handlerTakesMore(k) ==
    LET mod == loaded[relRoutePaths[k]]
        h == IF mod.handlers # NoExport THEN mod.handlers ELSE mod.handler
    IN  h.kind = "function" /\ h.length >= 2

offending(k) == exportsNothing(k) \/ handlerTakesMore(k)

loadFailed == loadState.state = "failed"

\* C17: when a discovered module exports none of default, config, handler
\* and handlers, or its handler is a single function declaring more than one
\* parameter, fsRoutes fails with an error naming the path of an offending
\* file, and nothing has been registered in the router when it fails.
C17_InvalidModuleFails ==
    /\ (loadState.state # "pending" /\ \E k \in DOMAIN relRoutePaths : offending(k))
          => loadFailed
    /\ loadFailed =>
          /\ \E k \in DOMAIN relRoutePaths :
                /\ offending(k)
                /\ EndsWith(loadState.path, relRoutePaths[k])
          /\ routes = <<>> /\ middlewares = <<>>
          /\ routeModules = <<>> /\ fi = 0 /\ fsLog = <<>>

C17_Witness ==
    /\ loadFailed
    /\ Len(relRoutePaths) = 2
    /\ ~offending(1) /\ handlerTakesMore(2)
    /\ loadState.path = RoutesDir \o Slash \o relRoutePaths[2]
    /\ routes = <<>>

C17_WitnessNoExports ==
    /\ loadFailed
    /\ Len(relRoutePaths) = 2
    /\ exportsNothing(1) /\ ~offending(2)
    /\ loadState.path = relRoutePaths[1]

----------------------------------------------------------------------------
(* Specification SpecFsShape: fsRoutes over Leaves of every handler shape  *)

FsShapeFiles ==
    {N_middleware \o Ext, N_baz \o Ext,
     N_foo \o Slash \o N_layout \o Ext,
     N_foo \o Slash \o N_baz \o Ext}

FsShapeInit == FsInitOver(FsShapeFiles)

SpecFsShape == FsShapeInit /\ [][FsNext]_vars

\* The registrations the router holds under the pattern of a Leaf.
registrationsOf(leafPath) ==
    SelectSeq(routes,
              LAMBDA r : r.pattern =
                  mergePaths(basePath, pathToPattern(SliceFrom(leafPath, 1))))

\* A registration whose chain is the Leaf's middlewares followed by one
\* render middleware around the Leaf's components and the handler given.
chainOf(e, r, handler) ==
    /\ Len(r.handlers) = Len(e.middlewares) + 1
    /\ SubSeq(r.handlers, 1, Len(e.middlewares)) = e.middlewares
    /\ r.handlers[Len(r.handlers)] = renderMiddleware(e.components, handler)

shapeCase(k) ==
    LET e == fsLog[k]
        mod == moduleAt(e.path)
        h == mod.handlers
        regs == registrationsOf(e.path)
        declared == {key \in Range(h.keys) : key \notin h.undef}
    IN  IF h.kind = "object" /\ h.keys # <<>>
        THEN /\ Len(regs) = Cardinality(declared)
             /\ {regs[j].method : j \in DOMAIN regs} = declared
             /\ \A j \in DOMAIN regs :
                   chainOf(e, regs[j], HandlerOf(mod, regs[j].method))
        ELSE IF h.kind = "function"
        THEN /\ Len(regs) = 1
             /\ regs[1].method = "ALL"
             /\ chainOf(e, regs[1], HandlerOf(mod, "fn"))
        ELSE /\ Len(regs) = 1
             /\ regs[1].method = "GET"
             /\ chainOf(e, regs[1], Undefined)

\* C18: the registrations made for a Leaf follow its handler shape: one per
\* method of a method mapping whose handler is defined, one for ALL for a
\* single function, one GET registration without data handler for a Leaf
\* with no handlers or an empty mapping; the chain of each is the Leaf's
\* accumulated middlewares followed by one render middleware, which is last.
C18_RegistrationsByShape == \A k \in DOMAIN fsLog : shapeCase(k)

C18_Witness ==
    \E k \in DOMAIN fsLog :
        /\ fsLog[k].path = Join(Join(<<>>, N_foo), N_baz)
        /\ moduleAt(fsLog[k].path).handlers = HandlersPostUndefined
        /\ Len(fsLog[k].middlewares) = 2
        /\ Len(fsLog[k].components) = 2
        /\ Len(routes) = 3
        /\ Len(registrationsOf(fsLog[k].path)) = 1
        /\ registrationsOf(fsLog[k].path)[1].method = "GET"
        /\ hasModule(Join(<<>>, N_baz))
        /\ moduleAt(Join(<<>>, N_baz)).handlers = HandlersByMethod
        /\ fi > Len(routeModules)

----------------------------------------------------------------------------
(* Specification SpecFsUnder: fsRoutes over a tree with a directory named  *)
(* `_d`, a sibling directory and a directory below `_d`                    *)

FsUnderFiles ==
    {N_layout \o Ext, N_middleware \o Ext,
     N_ud \o Slash \o N_layout \o Ext,
     N_ud \o Slash \o N_index \o Ext,
     N_ud \o Slash \o N_foo \o Slash \o N_index \o Ext,
     N_foo \o Slash \o N_middleware \o Ext,
     N_foo \o Slash \o N_index \o Ext}

FsUnderInit == FsInitOver(FsUnderFiles)

SpecFsUnder == FsUnderInit /\ [][FsNext]_vars

\* The file whose iteration of the loop has just ended.
processed == routeModules[fi - 1]

\* The directory a function or component of a chain comes from lies on the
\* way to the Leaf.  A component is named by its file, a function by the path
\* of its module.
fileAbove(routePath, leafPath) ==
    LET base == dirOf(Slash \o routePath)
    IN  base = <<>> \/ StartsWith(leafPath, base \o Slash)

pathAbove(path, leafPath) ==
    dirOf(path) = <<>> \/ StartsWith(leafPath, dirOf(path) \o Slash)

chainAbove(e) ==
    /\ \A c \in Range(e.components) : fileAbove(c, e.path)
    /\ \A f \in Range(e.middlewares) :
          /\ f.handler # Undefined => pathAbove(f.handler.path, e.path)
          /\ \A c \in Range(f.components) : fileAbove(c, e.path)

\* C20: when a file has been through the pop step, the base of every entry
\* left on the stack is a path-prefix of the file's path; the chain of a
\* Leaf holds nothing from a directory that is not above the Leaf.
C20_StackHoldsAncestors ==
    /\ (fi >= 2 /\ fi - 1 <= Len(routeModules)) =>
          \A k \in DOMAIN stack : isAbove(stack[k], processed)
    /\ \A k \in DOMAIN fsLog :
          /\ \A j \in DOMAIN fsLog[k].stack :
                isAbove(fsLog[k].stack[j], fsLog[k])
          /\ chainAbove(fsLog[k])

\* The Leaf of the sibling directory foo is composed after the files of `_d`
\* and the root _layout, which the sort left behind a file of `_d`; the
\* entry of `_d` has been dropped and the Leaf's chain holds the root layout.
C20_Witness ==
    /\ fi > Len(routeModules)
    /\ Len(routeModules) = 4
    /\ \E i, j \in DOMAIN routeModules :
          /\ i < j
          /\ routeModules[i].base = Join(<<>>, N_ud)
          /\ isSpecial(routeModules[i].path)
          /\ routeModules[j].path = Join(<<>>, N_layout)
    /\ \E k \in DOMAIN fsLog :
          /\ fsLog[k].path = Join(Join(<<>>, N_foo), N_index)
          /\ Len(fsLog[k].stack) >= 1
          /\ fsLog[k].components # <<>>

----------------------------------------------------------------------------
(* Claims on the loop over the stack, entry by entry                       *)

\* What the loop held before its k-th iteration for the Leaf of a log entry.
stepBefore(e, k) ==
    IF k = 1
    THEN [components |-> <<>>,
          skipApp |-> e.config.skipAppWrapper,
          hasApp |-> e.hasApp]
    ELSE e.steps[k - 1]

\* The k-th stack entry of the Leaf declares skipInheritedLayouts, the Leaf
\* does not, and the entry is a layout file with a component.
resetCase(e, k) ==
    /\ ~e.config.skipInheritedLayouts
    /\ e.stack[k].config.skipInheritedLayouts
    /\ EndsWith(e.stack[k].path, Join(<<>>, N_layout))
    /\ e.stack[k].component # NoComponent

lastOf(components) ==
    IF components = <<>> THEN <<>> ELSE <<components[Len(components)]>>

\* C22 as claimed: at a stack entry declaring skipInheritedLayouts the chain
\* accumulated so far is cut down to its most recently accumulated
\* component, if any, and the entry's own component is appended.
C22_ResetKeepsLast ==
    \A i \in DOMAIN fsLog : \A k \in DOMAIN fsLog[i].stack :
        resetCase(fsLog[i], k) =>
            fsLog[i].steps[k].components =
                lastOf(stepBefore(fsLog[i], k).components)
                    \o <<fsLog[i].stack[k].component>>

\* C22 amended: the chain is cut down to its first component, the app
\* wrapper, and that only while the app wrapper is in use (hasApp set and
\* not skipped); otherwise it is emptied.  The entry's own component is
\* appended.
C22_ResetKeepsApp ==
    \A i \in DOMAIN fsLog : \A k \in DOMAIN fsLog[i].stack :
        resetCase(fsLog[i], k) =>
            LET before == stepBefore(fsLog[i], k)
                kept == IF /\ before.hasApp /\ ~before.skipApp
                           /\ before.components # <<>>
                        THEN <<Head(before.components)>> ELSE <<>>
            IN  fsLog[i].steps[k].components =
                    kept \o <<fsLog[i].stack[k].component>>

\* The Leaf /foo/index under _app, the root _layout and a foo/_layout that
\* declares skipInheritedLayouts: the chain is app, foo/_layout, index.
C22_Witness ==
    \E i \in DOMAIN fsLog :
        /\ fsLog[i].path = Join(Join(<<>>, N_foo), N_index)
        /\ Len(fsLog[i].stack) = 3
        /\ resetCase(fsLog[i], 3)
        /\ Len(stepBefore(fsLog[i], 3).components) = 2
        /\ fsLog[i].steps[3].components =
              <<Component(N_app \o Ext),
                Component(N_foo \o Slash \o N_layout \o Ext)>>
        /\ Len(fsLog[i].components) = 3

ownComponent(mod) ==
    IF mod.component # NoComponent THEN <<mod.component>> ELSE <<>>

\* The chain composed for the Leaf of a log entry when the loop starts with
\* the hasApp flag given.
chainFrom(e, flag) ==
    composeLoop(e.stack, 1, e.config.skipInheritedLayouts,
                [middlewares |-> <<>>,
                 components |-> <<>>,
                 skipApp |-> e.config.skipAppWrapper,
                 hasApp |-> flag,
                 routes |-> <<>>,
                 use |-> <<>>])

\* An _app file is among the ancestors of the Leaf of a log entry.
appAbove(e) ==
    \E k \in DOMAIN e.stack : e.stack[k].path = Join(<<>>, N_app)

\* C26 as claimed: the components and middlewares composed for a Leaf are
\* those its own module and the special files above it give, whatever
\* Leaves were composed before it: the same as when the Leaf is composed
\* first, with hasApp telling only whether an _app file is above it.
C26_ChainOfLeafAlone ==
    \A i \in DOMAIN fsLog :
        LET e == fsLog[i]
            alone == chainFrom(e, appAbove(e))
        IN  /\ e.middlewares = alone.middlewares
            /\ e.components = alone.components \o ownComponent(moduleAt(e.path))

\* The same for the first Leaf composed.
C26_ChainOfFirstLeaf ==
    fsLog # <<>> =>
        LET e == fsLog[1]
            alone == chainFrom(e, appAbove(e))
        IN  /\ e.middlewares = alone.middlewares
            /\ e.components = alone.components \o ownComponent(moduleAt(e.path))

----------------------------------------------------------------------------
(* Specification SpecFsError: fsRoutes over a tree with _error and _500    *)
(* files at the root and in a directory                                    *)

FsErrorFiles ==
    {N_layout \o Ext, N_500 \o Ext, N_error \o Ext,
     N_foo \o Slash \o N_500 \o Ext,
     N_foo \o Slash \o N_error \o Ext,
     N_foo \o Slash \o N_bar \o Ext}

FsErrorInit == FsInitOver(FsErrorFiles)

SpecFsError == FsErrorInit /\ [][FsNext]_vars

isErrorFile(mod) ==
    \/ EndsWith(mod.path, Join(<<>>, N_error))
    \/ EndsWith(mod.path, Join(<<>>, N_500))

\* The pattern of the subtree of a directory: its path followed by `/*`, the
\* root giving `*`.
subtreePattern(base) == IF base = <<>> THEN <<"*">> ELSE base \o <<"/", "*">>

\* The router holds an ALL registration at the pattern whose one handler is an
\* error middleware around the components given.
fallbackAt(pattern, components) ==
    \E r \in DOMAIN routes :
        /\ routes[r].method = "ALL"
        /\ routes[r].pattern = pattern
        /\ Len(routes[r].handlers) = 1
        /\ routes[r].handlers[1].g = "error"
        /\ routes[r].handlers[1].components = components

\* C23 as claimed: for an _error file, and equally a _500 file, of the
\* directory d met while a Leaf is composed, a fallback for all methods is
\* registered at d's path followed by `*` (the root giving `*`), rendering
\* the components accumulated so far followed by the file's own.
C23_FallbackAtDirectory ==
    \A i \in DOMAIN fsLog : \A k \in DOMAIN fsLog[i].stack :
        isErrorFile(fsLog[i].stack[k]) =>
            fallbackAt(subtreePattern(fsLog[i].stack[k].base),
                       stepBefore(fsLog[i], k).components
                           \o ownComponent(fsLog[i].stack[k]))

\* The same for _error files only.
C23_FallbackAtDirectoryOfError ==
    \A i \in DOMAIN fsLog : \A k \in DOMAIN fsLog[i].stack :
        EndsWith(fsLog[i].stack[k].path, Join(<<>>, N_error)) =>
            fallbackAt(subtreePattern(fsLog[i].stack[k].base),
                       stepBefore(fsLog[i], k).components
                           \o ownComponent(fsLog[i].stack[k]))

----------------------------------------------------------------------------
(* Specification SpecFsStatus: the tree of SpecFsBoundary, serving any     *)
(* request, matched by a registration or not                               *)

FsStatusNext == FsBoundaryNext \/ FsReceive

SpecFsStatus == FsBoundaryInit /\ [][FsStatusNext]_vars

\* The event j is the page a boundary rendered after its catch of event k.
boundaryPage(k, j) ==
    /\ k < j
    /\ trace[k].e = "catch" /\ trace[j].e = "page"
    /\ trace[k].h = trace[j].h
    /\ chain[trace[j].h].g \in {"error", "notFound"}
    /\ \A i \in k + 1..j - 1 : trace[i].h # trace[k].h

\* C24 as claimed: when a boundary has caught a condition that bears a
\* status (an HttpError) and renders its component chain, the response has
\* that status; a request for an unmatched path under a _404 file gets 404.
C24_BoundaryKeepsStatus ==
    /\ \A k \in DOMAIN trace, j \in DOMAIN trace :
          (boundaryPage(k, j) /\ trace[k].err.http) =>
              trace[j].v = trace[k].err.status
    /\ (/\ phase = "done"
        /\ ~matched.patternMatch
        /\ chain # <<>> /\ chain[1].g = "notFound"
        /\ chain[1].components # <<>>
        /\ trace[Len(trace)].e = "page")
          => outcome.status = 404

----------------------------------------------------------------------------
(* Specification SpecFsCatchAll: _404 and _error files with no, one or two *)
(* Leaves below them                                                       *)

FsCatchAllFiles ==
    {N_404 \o Ext, N_index \o Ext,
     N_foo \o Slash \o N_error \o Ext,
     N_foo \o Slash \o N_bar \o Ext,
     N_foo \o Slash \o N_about \o Ext}

FsCatchAllInit == FsInitOver(FsCatchAllFiles)

SpecFsCatchAll == FsCatchAllInit /\ [][FsNext]_vars

\* The boundary middleware was built for the module: around its component
\* or its handler.
builtFor(f, mod) ==
    /\ f.g \in {"error", "notFound"}
    /\ \/ /\ mod.component # NoComponent
          /\ f.components # <<>>
          /\ f.components[Len(f.components)] = mod.component
       \/ f.handler = HandlerOf(mod, "fn")

\* The catch-all registrations the router holds for a boundary module:
\* fallback routes and global middlewares.
catchAllsOf(mod) ==
    Cardinality({r \in DOMAIN routes :
                    /\ Len(routes[r].handlers) = 1
                    /\ builtFor(routes[r].handlers[1], mod)})
    + Cardinality({k \in DOMAIN middlewares : builtFor(middlewares[k], mod)})

isBoundaryFile(mod) ==
    \/ isErrorFile(mod)
    \/ EndsWith(mod.path, Join(<<>>, N_404))

\* C25 as claimed: once an _error, _500 or _404 file has been processed the
\* router holds exactly one catch-all registration for it, however many
\* Leaves are composed below it.
C25_OneCatchAllPerFile ==
    \A k \in DOMAIN routeModules :
        (fi > k /\ isBoundaryFile(routeModules[k])) =>
            catchAllsOf(routeModules[k]) = 1

\* What the code does: one registration for each Leaf composed while the
\* file is on the stack.
C25_OneCatchAllPerLeaf ==
    \A k \in DOMAIN routeModules :
        isBoundaryFile(routeModules[k]) =>
            catchAllsOf(routeModules[k]) =
                Cardinality({i \in DOMAIN fsLog :
                    routeModules[k] \in Range(fsLog[i].stack)})

----------------------------------------------------------------------------
(* Claims on the request context                                           *)

\* No run of repeated "/" : no empty segment before the last one.
noDoubleSlash(path) == \A k \in 1..Len(path) - 1 : path[k] # <<>>

\* C27 as claimed: the path is normalized before matching and the handlers
\* see the normalized path: the pathname of ctx.url has no `//` and is the
\* pathname that was matched.
C27_ContextUrlNormalized ==
    ctx # NoCtx =>
        /\ req.pathname = normalizePath(req.path)
        /\ noDoubleSlash(req.pathname)
        /\ noDoubleSlash(ctx.url)
        /\ ctx.url = req.pathname

\* The part that holds: the pathname given to the router is normalized.
C27_MatchedPathNormalized ==
    ctx # NoCtx =>
        /\ req.pathname = normalizePath(req.path)
        /\ noDoubleSlash(req.pathname)
        /\ matched = routerMatch(routes, middlewares, req.method, req.pathname)

----------------------------------------------------------------------------
(* Specification SpecFsMw: fsRoutes over a tree with _middleware files at  *)
(* the root and in a directory, and a directory named `_e`                 *)

FsMwFiles ==
    {N_middleware \o Ext, N_index \o Ext,
     N_foo \o Slash \o N_middleware \o Ext,
     N_foo \o Slash \o N_index \o Ext,
     N_ue \o Slash \o N_index \o Ext}

FsMwInit == FsInitOver(FsMwFiles)

SpecFsMw == FsMwInit /\ [][FsNext]_vars

\* The functions of the _middleware files of the directories on the way to
\* a path, the root first, from the directory that ends at index i on.
RECURSIVE ancestorMiddlewares(_, _)
ancestorMiddlewares(path, i) ==
    IF i > Len(path) THEN <<>>
    ELSE IF path[i] # "/" THEN ancestorMiddlewares(path, i + 1)
    ELSE LET file == Join(SubSeq(path, 1, i - 1), N_middleware)
             here == IF hasModule(file) THEN middlewareFns(moduleAt(file))
                     ELSE <<>>
         IN  here \o ancestorMiddlewares(path, i + 1)

\* The functions of _middleware files in the chain of a Leaf.
moduleFnsOf(e) == SelectSeq(e.middlewares, LAMBDA f : f.g = "module")

\* C21 as claimed: the chain of every Leaf holds the functions of the
\* _middleware file of its own directory and of every directory above it,
\* the root's first, the functions of one file in their declared order, and
\* none is left out.
C21_AncestorMiddlewares ==
    \A k \in DOMAIN fsLog :
        moduleFnsOf(fsLog[k]) = ancestorMiddlewares(fsLog[k].path, 1)

\* No segment of the path begins with `_`.
plainPath(path) ==
    \A i \in 1..Len(path) - 1 : path[i] = "/" => path[i + 1] # "_"

\* The same for the Leaves whose path has no segment beginning with `_`.
C21_AncestorMiddlewaresPlainNames ==
    \A k \in DOMAIN fsLog :
        plainPath(fsLog[k].path) =>
            moduleFnsOf(fsLog[k]) = ancestorMiddlewares(fsLog[k].path, 1)

----------------------------------------------------------------------------
(* App.mountApp (app.ts lines 125-154)                                     *)

MaxSubRoutes == 2
MaxSubMiddlewares == 2

\* The handlers and middlewares of the mounted App are functions of their
\* own, none of them registered in the parent.
SubMwHandler(k) == [g |-> "submw", r |-> 0, k |-> k]
SubRouteHandler(r, k) == [g |-> "subroute", r |-> r, k |-> k]

SubPatterns == {<<"/", "b">>}
MountPaths == {<<"/">>, <<"*">>, <<"/", "a">>}

IslandOf(fn, exportName, file) ==
    [fn |-> fn, exportName |-> exportName,
     name |-> islandName({}, file, exportName), file |-> file]
CounterFile == [dir |-> "islands", base |-> <<"Counter">>]
CartFile == [dir |-> "islands", base |-> <<"Cart">>]

\* Registries island() has filled: the parent's, and the mounted App's, which
\* holds one component the parent also registered and one it did not.
ParentRegistries ==
    {<<>>, MapSet(<<>>, 1, IslandOf(1, Default, CounterFile))}
SubRegistries ==
    {MapSet(MapSet(<<>>, 1, IslandOf(1, <<"Counter">>, CartFile)),
            2, IslandOf(2, Default, CartFile))}

\* The route table of the mounted App after its own get() calls.
RECURSIVE subRoutesOf(_, _)
subRoutesOf(patterns, k) ==
    IF k = 0 THEN <<>>
    ELSE routerAdd(subRoutesOf(patterns, k - 1), "GET",
                   mergePaths(basePath, patterns[k]),
                   <<SubRouteHandler(k, 1)>>)

\* Line 136: a mount at "*" or "/" is a mount onto the parent itself.
isSelfAlways(path) == TRUE
isSelf(path) == path = <<"*">> \/ path = <<"/">>

\* Lines 148-150: the handlers a mounted route is registered with.
combinedAlways(self, mws, handlers) == mws \o handlers
combined(self, mws, handlers) ==
    IF self THEN handlers ELSE mws \o handlers

\* Lines 128-130: every island of the mounted App is set in the parent's map.
mergeIslands(registry, other) ==
    [k \in (DOMAIN registry) \cup (DOMAIN other) |->
        IF k \in DOMAIN other THEN other[k] ELSE registry[k]]

\* Lines 141-151: the loop over the mounted App's routes, from route i on.
RECURSIVE mountRoutes(_, _, _, _)
mountRoutes(rs, path, app, i) ==
    IF i > Len(app.routes) THEN rs
    ELSE LET route == app.routes[i]
             merged == mergePaths(path, route.pattern)
         IN  mountRoutes(
                 routerAdd(rs, route.method, merged,
                           combined(isSelf(path), app.middlewares,
                                    route.handlers)),
                 path, app, i + 1)

\* App.mountApp(path, app)
mountApp(path, app) ==
    /\ islandRegistry' = mergeIslands(islandRegistry, app.islandRegistry)
    /\ middlewares' =
           IF isSelf(path) /\ Len(app.middlewares) > 0
           THEN middlewares \o app.middlewares
           ELSE middlewares
    /\ routes' = mountRoutes(routes, path, app, 1)
    /\ UNCHANGED islandNames

MountInit ==
    /\ SortIdle /\ ReqIdle /\ CallIdle /\ EnvIdle
    /\ routeModules = <<>> /\ fi = 0 /\ stack = <<>> /\ hasApp = FALSE
    /\ fsLog = <<>>
    /\ relRoutePaths = <<>> /\ loaded = <<>>
    /\ loadState = LoadState("loaded")
    /\ islandRegistry \in ParentRegistries
    /\ islandNames = {}
    /\ routes = <<>>
    /\ middlewares = <<>>
    /\ \E n \in 0..MaxSubRoutes, m \in 0..MaxSubMiddlewares :
       \E patterns \in [1..n -> SubPatterns], registry \in SubRegistries :
           subApp = [routes |-> subRoutesOf(patterns, n),
                     middlewares |-> [k \in 1..m |-> SubMwHandler(k)],
                     islandRegistry |-> registry]
    /\ mount = NoMount
    /\ FlightIdle

\* parent.mountApp(path, sub), once, while the parent is being set up
MountApp ==
    /\ phase = "setup"
    /\ ~mount.done
    /\ \E path \in MountPaths :
           /\ mountApp(path, subApp)
           /\ mount' = [done |-> TRUE, path |-> path, routes |-> routes,
                        middlewares |-> middlewares,
                        islandRegistry |-> islandRegistry]
    /\ UNCHANGED <<subApp, loadVars, envVars, callVars, sortVars, reqVars,
                   fsVars, flightVars>>

MountNext == Use \/ AddRoute \/ MountApp

SpecMount == MountInit /\ [][MountNext]_vars

\* The routes the mount added to the parent's table.
mountedFrom == Len(mount.routes) + 1
mountedTo == Len(mount.routes) + Len(subApp.routes)
mountedRoute(i) == routes[Len(mount.routes) + i]

\* The parent's table and middleware list begin as they were before the mount.
parentRoutesKept ==
    /\ Len(routes) >= mountedTo
    /\ SubSeq(routes, 1, Len(mount.routes)) = mount.routes
parentMiddlewaresKept ==
    /\ Len(middlewares) >= Len(mount.middlewares)
    /\ SubSeq(middlewares, 1, Len(mount.middlewares)) = mount.middlewares

isSubMiddleware(h) ==
    \E k \in 1..Len(subApp.middlewares) : subApp.middlewares[k] = h

\* The requests whose match is none of the mounted routes.
matchesParentOnly(method, pathname) ==
    LET hits == methodHits(routes, method, pathname)
    IN  \A r \in hits :
            \E x \in hits : x <= r /\ ~(x \in mountedFrom..mountedTo)

subMiddlewaresNeverRun ==
    \A method \in Methods, raw \in RawPaths :
        LET pathname == normalizePath(raw)
            m == routerMatch(routes, middlewares, method, pathname)
            hs == flatten(m.handlers)
        IN  matchesParentOnly(method, pathname) =>
                \A k \in 1..Len(hs) : ~isSubMiddleware(hs[k])

\* The mount path is "/" or "*".
mountedOntoSelf == mount.path = <<"/">> \/ mount.path = <<"*">>

islandsMounted ==
    \A fn \in DOMAIN subApp.islandRegistry :
        /\ fn \in DOMAIN islandRegistry
        /\ islandRegistry[fn] = subApp.islandRegistry[fn]

C28_WitnessSelf ==
    /\ mount.done
    /\ mount.path = <<"/">>
    /\ Len(mount.middlewares) = 1
    /\ Len(subApp.middlewares) = 2
    /\ Len(subApp.routes) = 2

----------------------------------------------------------------------------
(* Specification SpecFlight: several invocations of the request function   *)
(* in flight (app.ts lines 179-217, config.ts lines 142-166)               *)

MaxRequests == 2
Requests == 1..MaxRequests

\* The local variables of the invocation that is running, and those of an
\* invocation that has not begun.
Locals ==
    [phase |-> phase, req |-> req, matched |-> matched, frames |-> frames,
     outcome |-> outcome, trace |-> trace]
NoLocals ==
    [phase |-> "idle", req |-> NoRequest, matched |-> NoMatch,
     frames |-> <<>>, outcome |-> NoOutcome, trace |-> <<>>]

\* One context for all invocations.
contextShared(i) == 1

\* Line 192, `const ctx = new FreshReqContext(...)`: the object invocation i
\* constructs is its own.
contextOf(i) == i

localsOf(i) == IF i \in DOMAIN suspended THEN suspended[i] ELSE NoLocals
objectAt(h, ref) == IF ref \in DOMAIN h THEN h[ref] ELSE NoCtx

FlightFiles ==
    {N_foo \o Slash \o N_error \o Ext,
     N_foo \o Slash \o N_id \o Ext}

FlightRawPaths == {<<N_foo, N_bar>>, <<N_foo, X>>}

FlightInit == FsInitOver(FlightFiles)

\* The request function is invoked for a request that a registration serves.
FlightReceive ==
    /\ phase = "idle"
    /\ \E r \in DOMAIN routes, raw \in FlightRawPaths :
          /\ routes[r].method \in {"ALL", "GET"}
          /\ patternMatches(routes[r].path, normalizePath(raw))
          /\ Dispatch("GET", raw, matchOf(r, normalizePath(raw)))
    /\ UNCHANGED <<flightVars, mountVars, loadVars, envVars, callVars,
                   sortVars, appVars, fsVars>>

\* The handlers and the boundaries are async functions: at an await, and
\* when an invocation has ended, the event loop runs the continuation of
\* another invocation that has not ended, or a new invocation.
Resume(i) ==
    LET saved == MapSet(heap, contextOf(cur), ctx)
    IN  /\ phase \in {"running", "done"}
        /\ i # cur
        /\ localsOf(i).phase # "done"
        /\ suspended' = MapSet(suspended, cur, Locals)
        /\ heap' = saved
        /\ cur' = i
        /\ phase' = localsOf(i).phase
        /\ req' = localsOf(i).req
        /\ matched' = localsOf(i).matched
        /\ frames' = localsOf(i).frames
        /\ outcome' = localsOf(i).outcome
        /\ trace' = localsOf(i).trace
        /\ ctx' = objectAt(saved, contextOf(i))
        /\ UNCHANGED <<mountVars, loadVars, envVars, callVars, sortVars,
                       appVars, fsVars>>

Switch == \E i \in Requests : Resume(i)

\* The route handler inside a renderMiddleware writes to ctx.state: a value
\* of the request it serves.
RenderSetsState ==
    /\ rendering
    /\ chain[top.h].handler # Undefined
    /\ cur \notin ctx.state
    /\ ctx' = [ctx EXCEPT !.state = @ \cup {cur}]
    /\ UNCHANGED <<phase, req, matched, frames, outcome, trace>>
    /\ UNCHANGED <<flightVars, mountVars, loadVars, envVars, callVars,
                   sortVars, appVars, fsVars>>

FlightNext ==
    \/ SortModules
    \/ PushSpecial
    \/ ComposeLeaf
    \/ Listen
    \/ FlightReceive
    \/ Switch
    \/ RenderSetsState
    \/ RenderResponds
    \/ RenderThrows
    \/ RenderPage
    \/ BoundaryCallsNext
    \/ BoundaryReturns
    \/ BoundaryCatches

SpecFlight == FlightInit /\ [][FlightNext]_vars

\* Invocation i as its handlers see it: its locals and its context.
flight(i) ==
    IF i = cur
    THEN [locals |-> Locals, ctx |-> ctx]
    ELSE [locals |-> localsOf(i), ctx |-> objectAt(heap, contextOf(i))]

chainIn(f) == flatten(f.locals.matched.handlers)

\* What the error boundaries of an invocation caught last.
caughtIn(f) ==
    LET tr == f.locals.trace
        catches == {k \in DOMAIN tr :
                       tr[k].e = "catch" /\ chainIn(f)[tr[k].h].g = "error"}
    IN  IF catches = {} THEN NoError
        ELSE tr[CHOOSE k \in catches : \A j \in catches : j <= k].err

\* The handlers of an invocation that have been started.
startedIn(f) ==
    Cardinality({k \in DOMAIN f.locals.trace : f.locals.trace[k].e = "start"})

\* The continuation ctx.next stands for: the handler after the last one
\* started, the default terminal handler past the end.
nextIn(f) ==
    IF isFastPath(f.locals.matched.handlers)
    THEN Len(chainIn(f)) + 1
    ELSE startedIn(f) + 1

ownContext(i) ==
    LET f == flight(i)
    IN  f.locals.req # NoRequest =>
            /\ f.ctx.url = f.locals.req.path
            /\ f.ctx.params = f.locals.matched.params
            /\ \E r \in DOMAIN routes :
                   f.ctx.params =
                       patternParams(routes[r].path, f.locals.req.pathname)
            /\ f.ctx.state \subseteq {i}
            /\ f.ctx.error = caughtIn(f)
            /\ f.ctx.dflt = defaultNext(f.locals.matched)
            /\ f.ctx.next = nextIn(f)

\* The request function is serving: app.handler() has returned it.
dispatching == phase # "setup"

\* C29: whatever the interleaving of the requests in flight, the params, the
\* state, the error slot and the next continuation of a request's context are
\* those of that request, none of them changed by a handler of another
\* request or by an error boundary that caught for another request; and no
\* step of serving a request changes the route table, the middleware list or
\* the island registry.
C29_ContextPerRequest ==
    /\ [](\A i \in Requests : ownContext(i))
    /\ [][dispatching => UNCHANGED <<routes, middlewares, islandRegistry,
                                     islandNames>>]_vars

\* Two requests in flight with different parameters; a boundary has caught
\* for one of them and not for the other, and a handler of each has written to
\* its state.
C29_Witness ==
    /\ \A i \in Requests : flight(i).locals.phase = "running"
    /\ flight(1).locals.req.path # flight(2).locals.req.path
    /\ flight(1).ctx.params # flight(2).ctx.params
    /\ flight(1).ctx.error # NoError
    /\ flight(2).ctx.error = NoError
    /\ flight(1).ctx.state = {1}
    /\ flight(2).ctx.state = {2}
    /\ flight(1).ctx.next # flight(2).ctx.next

====
